---- MODULE Spec2Model ----
(***************************************************************************)
(* A model of the core of the ATE event-log database: the in-memory       *)
(* binary-tree indexer (lib/src/index.rs), the redo log appender          *)
(* (lib/src/redo/appender.rs) and the tree authority plugin               *)
(* (lib/src/tree.rs).                                                      *)
(***************************************************************************)
EXTENDS Integers, Sequences, FiniteSets, TLC

(***************************************************************************)
(* Bounds of the model.                                                    *)
(***************************************************************************)
NumKeys == 2
NumCollIds == 1
MaxTime == 2
NumHashes == 2
MaxMeta == 2

NumCommits == 3
NumErrs == 1
MaxSniffers == 1
MaxDisconnects == 2
NumNetEvents == 2
MaxPacket == 2
MaxFed == 2
MaxNotes == 3
MaxStamp == 3
NumSizes == 1
NumPaths == 2
NumKeySizes == 2
MaxConns == 2
StartBackoff == 100
MaxBackoff == 10000
MaxErrs == 10

NumTasks == 2

MaxRebuild == 2

MaxWalk == 4

Keys == 1..NumKeys
Colls == Keys \X (1..NumCollIds)
Times == 1..MaxTime
Hashes == 1..NumHashes

(***************************************************************************)
(* CoreMetadata tags.  A tag is a record [t, k, c]: Data(k), Tombstone(k), *)
(* Timestamp(k) use k only; Tree names the collection <<k, c>> (parent id  *)
(* and collection id).                                                     *)
(***************************************************************************)
Data(k) == [t |-> "Data", k |-> k, c |-> 0]
Tombstone(k) == [t |-> "Tombstone", k |-> k, c |-> 0]
Tree(vec) == [t |-> "Tree", k |-> vec[1], c |-> vec[2]]
Timestamp(ms) == [t |-> "Timestamp", k |-> ms, c |-> 0]

IdxTags ==
  {Data(k) : k \in Keys} \cup {Tombstone(k) : k \in Keys}
    \cup {Tree(v) : v \in Colls} \cup {Timestamp(ms) : ms \in Times}

SeqsUpTo(S, n) == UNION {[1..m -> S] : m \in 1..n}

(* An event header as the indexer sees it: the metadata list, whether the  *)
(* raw header carries a data hash, and the raw event hash.                 *)
EventHeader(meta, data, hash) == [meta |-> meta, data |-> data, hash |-> hash]

IdxEvents ==
  {EventHeader(m, d, h) : m \in SeqsUpTo(IdxTags, MaxMeta), d \in BOOLEAN, h \in Hashes}

NoEvent == EventHeader(<<>>, FALSE, 0)

(***************************************************************************)
(* Metadata accessors.                                                     *)
(***************************************************************************)
TagsOf(meta, t) == SelectSeq(meta, LAMBDA x : x.t = t)

get_tombstone(meta) ==
  LET s == TagsOf(meta, "Tombstone") IN IF s = <<>> THEN 0 ELSE s[1].k

get_data_key(meta) ==
  LET s == TagsOf(meta, "Data") IN IF s = <<>> THEN 0 ELSE s[1].k

get_timestamp(meta) ==
  LET s == TagsOf(meta, "Timestamp") IN IF s = <<>> THEN 0 ELSE s[1].k

(***************************************************************************)
(* BinaryTreeIndexer.  The three maps are partial functions.               *)
(***************************************************************************)
EmptyMap == [x \in {} |-> 0]

MapRemove(f, k) == [x \in DOMAIN f \ {k} |-> f[x]]

MapPut(f, k, v) == [x \in DOMAIN f \cup {k} |-> IF x = k THEN v ELSE f[x]]

BinaryTreeIndexer == [primary |-> EmptyMap, secondary |-> EmptyMap, parent |-> EmptyMap]

EventLeaf(record, created, updated) ==
  [record |-> record, created |-> created, updated |-> updated]

Retain(vec, k) == SelectSeq(vec, LAMBDA x : x # k)

Contains(vec, k) == \E i \in 1..Len(vec) : vec[i] = k

(* parent.remove(key) followed by vec.retain on the collection it named *)
Detach(ix, key) ==
  IF key \in DOMAIN ix.parent
    THEN LET vec == ix.parent[key] IN
         [ix EXCEPT !.parent = MapRemove(ix.parent, key),
                    !.secondary = IF vec \in DOMAIN ix.secondary
                                    THEN MapPut(ix.secondary, vec, Retain(ix.secondary[vec], key))
                                    ELSE ix.secondary]
    ELSE ix

(* a tombstone that forgets the secondary collection *)
FeedTombstoneKeepSecondary(ix, key) ==
  [ix EXCEPT !.primary = MapRemove(ix.primary, key),
             !.parent = MapRemove(ix.parent, key)]

FeedTombstone(ix, key) ==
  Detach([ix EXCEPT !.primary = MapRemove(ix.primary, key)], key)

(* an upsert that stamps created on every write *)
FeedDataRestamp(ix, e, key) ==
  IF ~e.data THEN ix
  ELSE LET when == get_timestamp(e.meta)
       IN [ix EXCEPT !.primary = MapPut(ix.primary, key, EventLeaf(e.hash, when, when))]

FeedData(ix, e, key) ==
  IF ~e.data THEN ix
  ELSE LET when == get_timestamp(e.meta)
           old == IF key \in DOMAIN ix.primary
                    THEN ix.primary[key]
                    ELSE EventLeaf(0, when, 0)
       IN [ix EXCEPT !.primary = MapPut(ix.primary, key, EventLeaf(e.hash, old.created, when))]

(* a Tree tag that attaches the key without detaching it first *)
FeedTreeNoDetach(ix, e, vec) ==
  LET key == get_data_key(e.meta) IN
  IF key = 0 THEN ix
  ELSE LET p == [ix EXCEPT !.parent = MapPut(ix.parent, key, vec)]
           exists == IF vec \in DOMAIN p.secondary THEN Contains(p.secondary[vec], key) ELSE FALSE
       IN IF exists THEN p
          ELSE [p EXCEPT !.secondary =
                  MapPut(p.secondary, vec,
                         IF vec \in DOMAIN p.secondary
                           THEN Append(p.secondary[vec], key) ELSE <<key>>)]

FeedTree(ix, e, vec) ==
  LET key == get_data_key(e.meta) IN
  IF key = 0 THEN ix
  ELSE LET d == Detach(ix, key)
           p == [d EXCEPT !.parent = MapPut(d.parent, key, vec)]
           exists == IF vec \in DOMAIN p.secondary THEN Contains(p.secondary[vec], key) ELSE FALSE
       IN IF exists THEN p
          ELSE [p EXCEPT !.secondary =
                  MapPut(p.secondary, vec,
                         IF vec \in DOMAIN p.secondary
                           THEN Append(p.secondary[vec], key) ELSE <<key>>)]

RECURSIVE FeedCore(_, _, _)
FeedCore(ix, e, i) ==
  IF i > Len(e.meta) THEN ix
  ELSE LET core == e.meta[i] IN
       FeedCore(CASE core.t = "Data" -> FeedData(ix, e, core.k)
                  [] core.t = "Tree" -> FeedTree(ix, e, <<core.k, core.c>>)
                  [] OTHER -> ix,
                e, i + 1)

(* a tombstone honoured only when it leads the metadata list *)
FeedIdxLeadingTombstone(ix, e) ==
  IF e.meta # <<>> /\ e.meta[1].t = "Tombstone"
    THEN FeedTombstone(ix, e.meta[1].k)
    ELSE FeedCore(ix, e, 1)

(* a tombstone branch without the early return *)
FeedIdxNoReturn(ix, e) ==
  IF get_tombstone(e.meta) # 0
    THEN FeedCore(FeedTombstone(ix, get_tombstone(e.meta)), e, 1)
    ELSE FeedCore(ix, e, 1)

FeedIdx(ix, e) ==
  IF get_tombstone(e.meta) # 0
    THEN FeedTombstone(ix, get_tombstone(e.meta))
    ELSE FeedCore(ix, e, 1)

lookup_primary(ix, key) == IF key \in DOMAIN ix.primary THEN <<ix.primary[key]>> ELSE <<>>

count(ix) == Cardinality(DOMAIN ix.primary)

(***************************************************************************)
(* Redo log.  An EventData is its metadata and its optional payload (0 is  *)
(* no payload).  The raw header is derived from the bytes: the data hash   *)
(* is present iff there is a payload and the event hash digests both (the  *)
(* digest is modelled by the digested content).                            *)
(***************************************************************************)
NumPayloads == 1
MaxLog == 3
MaxSegments == 2

EventData(meta, data_bytes) == [meta |-> meta, data_bytes |-> data_bytes]

as_header(evt) ==
  EventHeader(evt.meta, evt.data_bytes # 0, <<evt.meta, evt.data_bytes>>)

(* The events a Dio commit produces: a stored row, with or without a      *)
(* parent collection, and a deleted row.                                   *)
StoreEvents ==
  {EventData(<<Data(k), Timestamp(ms)>>, d) : k \in Keys, ms \in Times, d \in 1..NumPayloads}
    \cup {EventData(<<Data(k), Tree(v), Timestamp(ms)>>, d) :
             k \in Keys, v \in Colls, ms \in Times, d \in 1..NumPayloads}

DeleteEvents == {EventData(<<Tombstone(k)>>, 0) : k \in Keys}

LogEvents == StoreEvents \cup DeleteEvents

RECURSIVE FeedAll(_, _, _)
FeedAll(ix, frames, i) ==
  IF i > Len(frames) THEN ix
  ELSE FeedAll(FeedIdx(ix, as_header(frames[i])), frames, i + 1)

(* Loading a log: every frame of the file is read back in file order and   *)
(* fed to a fresh indexer.                                                 *)
LoadIndex(frames) == FeedAll(BinaryTreeIndexer, frames, 1)

(***************************************************************************)
(* Compaction.  Each compactor answers with the relevance of an event and  *)
(* its state after the answer; the log is walked from the newest frame to  *)
(* the oldest.                                                             *)
(***************************************************************************)
Relevance(rel, state) == [rel |-> rel, state |-> state]

(* a duplicates compactor that does not remember the keys it kept *)
RemoveDuplicatesRelevanceForgetful(state, meta) ==
  LET key == get_data_key(meta) IN
  IF key = 0 THEN Relevance("Abstain", state)
  ELSE IF key \in state THEN Relevance("Drop", state)
  ELSE Relevance("Keep", state)

(* RemoveDuplicatesCompactor::relevance; state is the set already *)
RemoveDuplicatesRelevance(state, meta) ==
  LET key == get_data_key(meta) IN
  IF key = 0 THEN Relevance("Abstain", state)
  ELSE IF key \in state THEN Relevance("Drop", state)
  ELSE Relevance("Keep", state \cup {key})

(* a tombstone compactor that drops the tombstone only *)
TombstoneRelevanceSelfOnly(state, meta) ==
  IF get_tombstone(meta) # 0
    THEN Relevance("ForceDrop", state \cup {get_tombstone(meta)})
    ELSE Relevance("Abstain", state)

(* TombstoneCompactor::relevance; state is the set tombstoned *)
TombstoneRelevance(state, meta) ==
  IF get_tombstone(meta) # 0
    THEN Relevance("ForceDrop", state \cup {get_tombstone(meta)})
  ELSE LET key == get_data_key(meta) IN
       IF key = 0 THEN Relevance("Abstain", state)
       ELSE IF key \in state THEN Relevance("ForceDrop", state)
       ELSE Relevance("Abstain", state)

(* the id of the parent the metadata names (0: none) *)
get_parent_id(meta) ==
  LET s == TagsOf(meta, "Tree") IN IF s = <<>> THEN 0 ELSE s[1].k

(* TreeCompactor::feed; state is the set parent_needed *)
TreeCompactorFeed(state, meta) ==
  IF get_parent_id(meta) # 0 THEN state \cup {get_parent_id(meta)} ELSE state

RECURSIVE TreeCompactorFeedAll(_, _, _)
TreeCompactorFeedAll(state, frames, i) ==
  IF i > Len(frames) THEN state
  ELSE TreeCompactorFeedAll(TreeCompactorFeed(state, frames[i].meta), frames, i + 1)

(* a tree compactor that keeps the key in parent_needed *)
TreeRelevanceEvery(state, meta) ==
  LET key == get_data_key(meta) IN
  IF key # 0 /\ key \in state THEN Relevance("ForceKeep", state)
  ELSE Relevance("Abstain", state)

(* TreeCompactor::relevance *)
TreeRelevance(state, meta) ==
  LET key == get_data_key(meta) IN
  IF key # 0 /\ key \in state THEN Relevance("ForceKeep", state \ {key})
  ELSE Relevance("Abstain", state)

(* ForceDrop > ForceKeep > Drop > Keep > Abstain; all Abstain keeps *)
Compose(rels) ==
  IF "ForceDrop" \in rels THEN FALSE
  ELSE IF "ForceKeep" \in rels THEN TRUE
  ELSE IF "Drop" \in rels THEN FALSE
  ELSE TRUE

Compactors(parent_needed) ==
  [already |-> {}, tombstoned |-> {}, parent_needed |-> parent_needed]

(* the frames kept, in log order, walking frames[i] down to frames[1] *)
RECURSIVE CompactWalk(_, _, _, _)
CompactWalk(frames, i, cs, kept) ==
  IF i = 0 THEN kept
  ELSE LET meta == frames[i].meta
           rd == RemoveDuplicatesRelevance(cs.already, meta)
           tb == TombstoneRelevance(cs.tombstoned, meta)
           tr == TreeRelevance(cs.parent_needed, meta)
           next == [already |-> rd.state, tombstoned |-> tb.state,
                    parent_needed |-> tr.state]
       IN CompactWalk(frames, i - 1, next,
                      IF Compose({rd.rel, tb.rel, tr.rel})
                        THEN <<frames[i]>> \o kept ELSE kept)

CompactLog(frames) ==
  CompactWalk(frames, Len(frames),
              Compactors(TreeCompactorFeedAll({}, frames, 1)), <<>>)

(***************************************************************************)
(* Tree authority plugin.                                                  *)
(*                                                                         *)
(* ReadOption is [t, k, d]: Inherit, Everyone with an optional encryption  *)
(* key k (0 is None), Specific with the hash k of the read key and the     *)
(* derived key d.  WriteOption is [t, hs]: Inherit, Everyone, Nobody,      *)
(* Specific(h) with hs = {h}, Any(hashes) with hs the hashes.  An Option   *)
(* is a sequence of length 0 or 1.                                         *)
(***************************************************************************)
NumSignKeys == 2
NumReadKeys == 2

SignHashes == 1..NumSignKeys
ReadHashes == 1..NumReadKeys

ROpt(t, k, d) == [t |-> t, k |-> k, d |-> d]
WOpt(t, hs) == [t |-> t, hs |-> hs]

ReadInherit == ROpt("Inherit", 0, 0)
ReadEveryone(k) == ROpt("Everyone", k, 0)
ReadSpecific(h, d) == ROpt("Specific", h, d)
WriteInherit == WOpt("Inherit", {})
WriteEveryone == WOpt("Everyone", {})
WriteNobody == WOpt("Nobody", {})
WriteSpecific(h) == WOpt("Specific", {h})
WriteAny(hs) == WOpt("Any", hs)

vals(write) == IF write.t \in {"Specific", "Any"} THEN write.hs ELSE {}

MetaAuthorization(read, write) == [read |-> read, write |-> write]

(* The metadata of an event as the plugin reads it, one field per accessor:*)
(* get_data_key, get_tombstone, get_authorization, get_parent (the parent  *)
(* id), get_confidentiality ([hash, cache]), get_iv and needs_signature.   *)
Metadata(key, tomb, auth, parent, conf, iv, sig) ==
  [key |-> key, tomb |-> tomb, auth |-> auth, parent |-> parent,
   conf |-> conf, iv |-> iv, sig |-> sig]

MetaConfidentiality(hash, cache) == [hash |-> hash, cache |-> cache]

TransactionMetadata(auth, parents) == [auth |-> auth, parents |-> parents]

DefaultTransactionMetadata == TransactionMetadata(EmptyMap, EmptyMap)

(* TreeAuthorityPlugin::new *)
TreeAuthorityPlugin ==
  [root |-> WriteEveryone, root_keys |-> {}, auth |-> EmptyMap, parents |-> EmptyMap,
   integrity |-> "Distributed"]

(* an add_root_public_key whose root option names the new key only *)
add_root_public_keyLast(p, h) ==
  [p EXCEPT !.root_keys = p.root_keys \cup {h},
            !.root = WriteAny({h})]

(* add_root_public_key: a key is identified by its hash *)
add_root_public_key(p, h) ==
  [p EXCEPT !.root_keys = p.root_keys \cup {h},
            !.root = WriteAny(p.root_keys \cup {h})]

RECURSIVE AddRootKeys(_, _)
AddRootKeys(p, hs) ==
  IF hs = {} THEN p
  ELSE LET h == CHOOSE x \in hs : TRUE IN AddRootKeys(add_root_public_key(p, h), hs \ {h})

(* a set_root_keys that adds to the keys already installed *)
set_root_keysKeep(p, hs) == AddRootKeys(p, hs)

set_root_keys(p, hs) ==
  AddRootKeys([p EXCEPT !.root_keys = {}, !.root = WriteEveryone], hs)

(* a lookup that prefers the plugin's stored entry *)
Lookup2StoredFirst(first, second, k) ==
  IF k \in DOMAIN second THEN <<second[k]>>
  ELSE IF k \in DOMAIN first THEN <<first[k]>> ELSE <<>>

Lookup2(first, second, k) ==
  IF k \in DOMAIN first THEN <<first[k]>>
  ELSE IF k \in DOMAIN second THEN <<second[k]>> ELSE <<>>

AuthResult(st, parent, read, write) ==
  [st |-> st, parent |-> parent, read |-> read, write |-> write]

(* a tail that forgets the root's write option *)
AtTopKeepInherit(p, read, write) ==
  AuthResult("Ok", 0, IF read = ReadInherit THEN ReadEveryone(0) ELSE read, write)

(* the tail of compute_auth: what is still Inherit takes the root's rights *)
AtTop(p, read, write) ==
  AuthResult("Ok", 0,
             IF read = ReadInherit THEN ReadEveryone(0) ELSE read,
             IF write = WriteInherit THEN p.root ELSE write)

(* a loop that treats a parent without authorization as the top of the walk *)
RECURSIVE WalkLenient(_, _, _, _, _, _)
WalkLenient(p, trans_meta, read, write, parent, n) ==
  IF ~(read = ReadInherit \/ write = WriteInherit) \/ parent = 0
    THEN AuthResult("Ok", 0,
                    IF read = ReadInherit THEN ReadEveryone(0) ELSE read,
                    IF write = WriteInherit THEN p.root ELSE write)
  ELSE IF n > NumKeys THEN AuthResult("Diverges", 0, ReadInherit, WriteInherit)
  ELSE LET parent_auth == Lookup2(trans_meta.auth, p.auth, parent) IN
       IF parent_auth = <<>>
         THEN WalkLenient(p, trans_meta, read, write, 0, n)
       ELSE LET r == IF read = ReadInherit THEN parent_auth[1].read ELSE read
                w == IF write = WriteInherit THEN parent_auth[1].write ELSE write
                next == Lookup2(trans_meta.parents, p.parents, parent)
            IN WalkLenient(p, trans_meta, r, w, IF next = <<>> THEN 0 ELSE next[1], n + 1)

(* The inheritance loop of compute_auth; n counts the iterations.  Once    *)
(* more than NumKeys iterations have begun a parent has been visited twice *)
(* with the loop condition still true, so the loop never ends.             *)
RECURSIVE Walk(_, _, _, _, _, _)
Walk(p, trans_meta, read, write, parent, n) ==
  IF ~(read = ReadInherit \/ write = WriteInherit) \/ parent = 0
    THEN AtTop(p, read, write)
  ELSE IF n > NumKeys THEN AuthResult("Diverges", 0, ReadInherit, WriteInherit)
  ELSE LET parent_auth == Lookup2(trans_meta.auth, p.auth, parent) IN
       IF parent_auth = <<>>
         THEN AuthResult("MissingParent", parent, ReadInherit, WriteInherit)
       ELSE LET r == IF read = ReadInherit THEN parent_auth[1].read ELSE read
                w == IF write = WriteInherit THEN parent_auth[1].write ELSE write
                next == Lookup2(trans_meta.parents, p.parents, parent)
            IN IF next = <<>> THEN AtTop(p, r, w)
               ELSE Walk(p, trans_meta, r, w, next[1], n + 1)

(* the authorization compute_auth starts from *)
OwnAuth(p, meta, trans_meta, phase) ==
  LET own == IF phase = "AfterStore" THEN meta.auth ELSE <<>>
      auth == IF own # <<>> THEN own ELSE Lookup2(trans_meta.auth, p.auth, meta.key)
  IN IF auth # <<>> THEN auth[1] ELSE MetaAuthorization(ReadInherit, WriteInherit)

compute_auth(p, meta, trans_meta, phase) ==
  IF meta.key = 0 THEN AuthResult("Ok", 0, ReadEveryone(0), p.root)
  ELSE LET auth == OwnAuth(p, meta, trans_meta, phase) IN
       Walk(p, trans_meta, auth.read, auth.write, meta.parent, 1)

(* EventSink::feed of the plugin *)
PluginFeed(p, meta) ==
  IF meta.tomb # 0
    THEN [p EXCEPT !.auth = MapRemove(p.auth, meta.tomb),
                   !.parents = MapRemove(p.parents, meta.tomb)]
  ELSE IF meta.key # 0
    THEN [p EXCEPT !.auth = MapPut(p.auth, meta.key,
                                   IF meta.auth # <<>> THEN meta.auth[1]
                                   ELSE MetaAuthorization(ReadInherit, WriteInherit)),
                   !.parents = IF meta.parent # 0
                                 THEN MapPut(p.parents, meta.key, meta.parent)
                                 ELSE p.parents]
  ELSE p

(***************************************************************************)
(* Validation.  A header under validation is its metadata, whether the raw *)
(* header has a data hash, the key hash of the signature the event itself  *)
(* carries (0: none) and the key hashes the signature plugin has verified  *)
(* for the event's hash ({}: get_verified_signatures returns None).        *)
(***************************************************************************)
ValHeader(meta, data, signed, verified) ==
  [meta |-> meta, data |-> data, signed |-> signed, verified |-> verified]

ConversationSession(server) == [other_end_is_server |-> server, signatures |-> {}]

(* SignaturePlugin::validate: the key of a signature it verified is        *)
(* recorded in the conversation.                                           *)
SignatureValidate(c, header) ==
  IF header.signed # 0
    THEN [c EXCEPT !.signatures = c.signatures \cup {header.signed}]
    ELSE c

get_verified_signatures(header) ==
  IF header.verified = {} THEN <<>> ELSE <<header.verified>>

already(write, signatures) ==
  IF write.t \in {"Specific", "Any"} THEN write.hs \cap signatures # {} ELSE FALSE

(* a short-circuit that trusts the server only *)
NoVerifiedSignaturesServerOnly(p, conversation, write) ==
  IF /\ p.integrity = "Centralized"
     /\ conversation # <<>>
     /\ conversation[1].other_end_is_server
    THEN "Allow" ELSE "NoSignatures"

(* a short-circuit taken in either integrity mode *)
NoVerifiedSignaturesAnyMode(p, conversation, write) ==
  IF /\ conversation # <<>>
     /\ \/ conversation[1].other_end_is_server
        \/ already(write, conversation[1].signatures)
    THEN "Allow" ELSE "NoSignatures"

(* validate when the signature plugin has no verified signature *)
NoVerifiedSignatures(p, conversation, write) ==
  IF /\ p.integrity = "Centralized"
     /\ conversation # <<>>
     /\ \/ conversation[1].other_end_is_server
        \/ already(write, conversation[1].signatures)
    THEN "Allow" ELSE "NoSignatures"

(* a check that takes any verified signature *)
CheckVerifiedAnySigner(write, verified_signatures) ==
  IF verified_signatures # {} THEN "Allow" ELSE "Detached"

(* validate when there are verified signatures *)
CheckVerified(write, verified_signatures) ==
  IF vals(write) \cap verified_signatures # {} THEN "Allow" ELSE "Detached"

RequiresSignature(header) == header.meta.sig \/ header.data

(* the authorization validate resolves *)
ValidateAuth(p, header) ==
  compute_auth(p, header.meta, DefaultTransactionMetadata, "BeforeStore")

(* TreeAuthorityPlugin::validate, after the signature plugin's validate;   *)
(* conversation is an Option.                                              *)
validate(p, header, conversation) ==
  IF ~RequiresSignature(header) THEN "Allow"
  ELSE LET auth == ValidateAuth(p, header) IN
       IF auth.st # "Ok" THEN auth.st
       ELSE IF auth.write = WriteEveryone THEN "Allow"
       ELSE LET verified_signatures == get_verified_signatures(header) IN
            IF verified_signatures = <<>>
              THEN NoVerifiedSignatures(p, conversation, auth.write)
              ELSE CheckVerified(auth.write, verified_signatures[1])

set_integrity_mode(p, mode) == [p EXCEPT !.integrity = mode]

(***************************************************************************)
(* Confidentiality.  An EncryptKey is a number of EncryptKeys; the derived *)
(* key of a Specific read option wraps an EncryptKey under the read key    *)
(* whose hash the option names; a read key is identified by its hash.      *)
(* Bytes are [enc, key, iv, body]: a plain payload body, or body encrypted *)
(* under key and iv.  A Session holds read keys, private read keys and     *)
(* write keys.                                                             *)
(***************************************************************************)
NumInnerKeys == 2
NumIvs == 2

EncryptKeys == 1..NumInnerKeys
IVs == 1..NumIvs

DerivedEncryptKey(read_key, inner) == (read_key - 1) * NumInnerKeys + inner

(* DerivedEncryptKey::transmute: unwrap with the read key; <<>> is an error *)
transmute(derived, key) ==
  IF ((derived - 1) \div NumInnerKeys) + 1 = key
    THEN <<((derived - 1) % NumInnerKeys) + 1>>
    ELSE <<>>

transmute_private(derived, key) == transmute(derived, key)

short_hash(key) == NumInnerKeys + key

Plain(body) == [enc |-> FALSE, key |-> 0, iv |-> 0, body |-> body]

encrypt_with_iv(key, iv, with) == [enc |-> TRUE, key |-> key, iv |-> iv, body |-> with.body]

(* decrypting with another key or iv, or what was never encrypted, yields  *)
(* bytes that are no payload                                               *)
decrypt(key, iv, with) ==
  IF with.enc /\ with.key = key /\ with.iv = iv THEN Plain(with.body) ELSE Plain(0)

Session(read_keys, private_read_keys, write_keys) ==
  [read_keys |-> read_keys, private_read_keys |-> private_read_keys,
   write_keys |-> write_keys]

(* Result<Option<..>>: st is Some, None or the error *)
KeyResult(st, key, iv) == [st |-> st, key |-> key, iv |-> iv]

(* iv is the value InitializationVector::generate() yields *)
generate_encrypt_key(auth, session, iv) ==
  IF auth.t = "Inherit" THEN KeyResult("UnspecifiedReadability", 0, 0)
  ELSE IF auth.t = "Everyone" THEN KeyResult("None", 0, 0)
  ELSE IF auth.k \in session.read_keys
    THEN LET inner == transmute(auth.d, auth.k) IN
         IF inner = <<>> THEN KeyResult("CryptoError", 0, 0)
         ELSE KeyResult("Some", inner[1], iv)
  ELSE IF auth.k \in session.private_read_keys
    THEN LET inner == transmute_private(auth.d, auth.k) IN
         IF inner = <<>> THEN KeyResult("CryptoError", 0, 0)
         ELSE KeyResult("Some", inner[1], iv)
  ELSE KeyResult("MissingReadKey", 0, 0)

(* the read option get_encrypt_key works with: the cached one, else the    *)
(* one resolved after store                                                *)
ReadAuth(p, meta, confidentiality) ==
  IF confidentiality.cache # <<>>
    THEN AuthResult("Ok", 0, confidentiality.cache[1], WriteInherit)
    ELSE compute_auth(p, meta, DefaultTransactionMetadata, "AfterStore")

SpecificKey(auth, confidentiality, session) ==
  LET inner == transmute(auth.d, auth.k)
      inner_private == transmute_private(auth.d, auth.k)
  IN IF auth.k \in session.read_keys /\ inner = <<>>
       THEN KeyResult("CryptoError", 0, 0)
     ELSE IF auth.k \in session.read_keys /\ short_hash(inner[1]) = confidentiality.hash
       THEN KeyResult("Some", inner[1], 0)
     ELSE IF auth.k \in session.private_read_keys /\ inner_private = <<>>
       THEN KeyResult("CryptoError", 0, 0)
     ELSE IF /\ auth.k \in session.private_read_keys
             /\ short_hash(inner_private[1]) = confidentiality.hash
       THEN KeyResult("Some", inner_private[1], 0)
     ELSE KeyResult("MissingReadKey", 0, 0)

get_encrypt_key(p, meta, confidentiality, iv, session) ==
  LET a == ReadAuth(p, meta, confidentiality) IN
  IF a.st # "Ok" THEN KeyResult(a.st, 0, 0)
  ELSE IF a.read.t = "Inherit" THEN KeyResult("UnspecifiedReadability", 0, 0)
  ELSE IF a.read.t = "Everyone"
    THEN IF iv # 0 /\ a.read.k # 0 THEN KeyResult("Some", a.read.k, 0)
         ELSE KeyResult("None", 0, 0)
  ELSE SpecificKey(a.read, confidentiality, session)

LintResult(st, sign_with, conf) == [st |-> st, sign_with |-> sign_with, conf |-> conf]

(* metadata_lint_event, signing part: the error, or Ok and the keys to     *)
(* sign with                                                               *)
LintWrite(meta, session, write) ==
  IF write.t \in {"Specific", "Any"}
    THEN LET sign_with == vals(write) \cap session.write_keys IN
         IF meta.sig /\ sign_with = {}
           THEN LintResult(IF meta.key # 0 THEN "NoAuthorizationWrite"
                           ELSE "NoAuthorizationOrphan", {}, <<>>)
           ELSE LintResult("Ok", sign_with, <<>>)
  ELSE IF write.t = "Inherit" THEN LintResult("UnspecifiedWritability", {}, <<>>)
  ELSE LintResult("Ok", {}, <<>>)

(* an encryption part that lets a record through that the session cannot  *)
(* read                                                                    *)
LintReadLenient(meta, session, read) ==
  IF read.t = "Everyone"
    THEN LintResult("Ok", {}, IF read.k # 0 THEN <<short_hash(read.k)>> ELSE <<>>)
  ELSE IF read.t = "Specific"
    THEN LET inner == IF read.k \in session.read_keys THEN transmute(read.d, read.k)
                      ELSE <<>>
         IN IF inner = <<>> THEN LintResult("Ok", {}, <<>>)
            ELSE LintResult("Ok", {}, <<short_hash(inner[1])>>)
  ELSE LintResult("Ok", {}, <<>>)

(* metadata_lint_event, encryption part: the error, or Ok and the optional *)
(* key hash                                                                *)
LintRead(meta, session, read) ==
  IF read.t = "Everyone"
    THEN LintResult("Ok", {}, IF read.k # 0 THEN <<short_hash(read.k)>> ELSE <<>>)
  ELSE IF read.t = "Specific"
    THEN LET inner == IF read.k \in session.read_keys THEN transmute(read.d, read.k)
                      ELSE <<>>
             inner_private == IF read.k \in session.private_read_keys
                                THEN transmute_private(read.d, read.k) ELSE <<>>
             ret == IF inner # <<>> THEN inner ELSE inner_private
         IN IF ret = <<>>
              THEN IF meta.key # 0 THEN LintResult("NoAuthorizationRead", {}, <<>>)
                   ELSE LintResult("Ok", {}, <<>>)
              ELSE LintResult("Ok", {}, <<short_hash(ret[1])>>)
  ELSE LintResult("Ok", {}, <<>>)

(* a lint that signs with the authorization resolved after store *)
metadata_lint_eventAfterStore(p, meta, session, trans_meta) ==
  LET before == compute_auth(p, meta, trans_meta, "AfterStore") IN
  IF before.st # "Ok" THEN LintResult(before.st, {}, <<>>)
  ELSE LET w == LintWrite(meta, session, before.write) IN
       IF w.st # "Ok" THEN w
       ELSE LET after == compute_auth(p, meta, trans_meta, "AfterStore") IN
            IF after.st # "Ok" THEN LintResult(after.st, {}, <<>>)
            ELSE LET r == LintRead(meta, session, after.read) IN
                 IF r.st # "Ok" THEN r
                 ELSE LintResult("Ok", w.sign_with,
                                 IF r.conf = <<>> THEN <<>>
                                 ELSE <<MetaConfidentiality(r.conf[1], <<after.read>>)>>)

metadata_lint_event(p, meta, session, trans_meta) ==
  LET before == compute_auth(p, meta, trans_meta, "BeforeStore") IN
  IF before.st # "Ok" THEN LintResult(before.st, {}, <<>>)
  ELSE LET w == LintWrite(meta, session, before.write) IN
       IF w.st # "Ok" THEN w
       ELSE LET after == compute_auth(p, meta, trans_meta, "AfterStore") IN
            IF after.st # "Ok" THEN LintResult(after.st, {}, <<>>)
            ELSE LET r == LintRead(meta, session, after.read) IN
                 IF r.st # "Ok" THEN r
                 ELSE LintResult("Ok", w.sign_with,
                                 IF r.conf = <<>> THEN <<>>
                                 ELSE <<MetaConfidentiality(r.conf[1], <<after.read>>)>>)

TransformResult(st, meta, data) == [st |-> st, meta |-> meta, data |-> data]

(* the read option data_as_underlay encrypts for *)
UnderlayAuth(p, meta, trans_meta) ==
  IF meta.conf # <<>> /\ meta.conf[1].cache # <<>>
    THEN AuthResult("Ok", 0, meta.conf[1].cache[1], WriteInherit)
    ELSE compute_auth(p, meta, trans_meta, "AfterStore")

(* an underlay that encrypts and does not record the IV *)
data_as_underlayNoIvTag(p, meta, with, session, trans_meta, iv) ==
  LET a == UnderlayAuth(p, meta, trans_meta) IN
  IF a.st # "Ok" THEN TransformResult(a.st, meta, with)
  ELSE LET g == generate_encrypt_key(a.read, session, iv) IN
       IF g.st = "Some"
         THEN TransformResult("Ok", meta, encrypt_with_iv(g.key, g.iv, with))
       ELSE IF g.st = "None" THEN TransformResult("Ok", meta, with)
       ELSE TransformResult(g.st, meta, with)

(* iv is the value InitializationVector::generate() yields *)
data_as_underlay(p, meta, with, session, trans_meta, iv) ==
  LET a == UnderlayAuth(p, meta, trans_meta) IN
  IF a.st # "Ok" THEN TransformResult(a.st, meta, with)
  ELSE LET g == generate_encrypt_key(a.read, session, iv) IN
       IF g.st = "Some"
         THEN TransformResult("Ok",
                              [meta EXCEPT !.iv = IF meta.iv = 0 THEN g.iv ELSE meta.iv],
                              encrypt_with_iv(g.key, g.iv, with))
       ELSE IF g.st = "None" THEN TransformResult("Ok", meta, with)
       ELSE TransformResult(g.st, meta, with)

(* an overlay that decrypts only when there is an IV *)
data_as_overlayLenient(p, meta, with, session) ==
  IF meta.conf # <<>>
    THEN LET k == get_encrypt_key(p, meta, meta.conf[1], meta.iv, session) IN
         IF k.st = "Some"
           THEN IF meta.iv = 0 THEN TransformResult("Ok", meta, with)
                ELSE TransformResult("Ok", meta, decrypt(k.key, meta.iv, with))
         ELSE IF k.st = "None" THEN TransformResult("Ok", meta, with)
         ELSE TransformResult(k.st, meta, with)
  ELSE IF meta.iv # 0 THEN TransformResult("UnspecifiedReadability", meta, with)
  ELSE TransformResult("Ok", meta, with)

data_as_overlay(p, meta, with, session) ==
  IF meta.conf # <<>>
    THEN LET k == get_encrypt_key(p, meta, meta.conf[1], meta.iv, session) IN
         IF k.st = "Some"
           THEN IF meta.iv = 0 THEN TransformResult("NoIvPresent", meta, with)
                ELSE TransformResult("Ok", meta, decrypt(k.key, meta.iv, with))
         ELSE IF k.st = "None" THEN TransformResult("Ok", meta, with)
         ELSE TransformResult(k.st, meta, with)
  ELSE IF meta.iv # 0 THEN TransformResult("UnspecifiedReadability", meta, with)
  ELSE TransformResult("Ok", meta, with)

(***************************************************************************)
(* What the processor of a mesh session works with.  A Loader is the set   *)
(* of events it reports as already known (relevance_check); a Transaction  *)
(* is what is fed to the chain's pipe; a note is a call made on the        *)
(* loader and its argument.                                                *)
(***************************************************************************)
Loader(dups) == [dups |-> dups]

relevance_check(l, e) == e \in l.dups

Transaction(scope, transmit, events, conversation) ==
  [scope |-> scope, transmit |-> transmit, events |-> events,
   conversation |-> conversation]

Note(n, a) == [n |-> n, a |-> a]

MetaDelayedUpload(complete, from, to) == [complete |-> complete, from |-> from, to |-> to]

NoWire == [st |-> "none", encryption |-> 0, exchanged |-> FALSE, wrapped |-> FALSE]

(***************************************************************************)
(* State.  index is the BinaryTreeIndexer; last summarises the event the   *)
(* indexer was fed last: the key of its first Tombstone tag (0 if none),   *)
(* the keys of all its Tombstone tags, the keys of its Data tags when the  *)
(* raw header has a data hash, whether the tombstoned key had index state  *)
(* before the feed, and whether the event fed before it tombstoned the     *)
(* same key.  stream is the appender's write buffer, file the frames that  *)
(* reached the log file, open whether the chain is open, loaded whether    *)
(* the open chain was loaded from a log file; while the chain is closed    *)
(* index keeps the value it had when the chain was closed; segment numbers *)
(* the log segment the file is.                                            *)
(***************************************************************************)
VARIABLES index, last, stream, file, open, loaded, segment, synced, plugin, buried, out, conv,
          alive, pc, commit, senders, replies, lock_requests, lock_replies,
          sniffers, status_tx, returned,
          chain, loader, loader_log, pipe, upstream,
          timeline, pointers,
          listener, task, exp_backoff, server_cert, routes, late, conns, wire,
          inside_async, disable_new_roots, destroyed, seen, sigs, errs

vars == <<index, last, stream, file, open, loaded, segment, synced, plugin, buried, out, conv,
          alive, pc, commit, senders, replies, lock_requests, lock_replies,
          sniffers, status_tx, returned,
          chain, loader, loader_log, pipe, upstream,
          timeline, pointers,
          listener, task, exp_backoff, server_cert, routes, late, conns, wire,
          inside_async, disable_new_roots, destroyed, seen, sigs, errs>>

leaseVars == <<inside_async, disable_new_roots, destroyed>>

meshVars == <<alive, pc, commit, senders, replies, lock_requests, lock_replies,
              sniffers, status_tx, returned>>

inboxVars == <<chain, loader, loader_log, pipe, upstream>>

histVars == <<timeline, pointers>>

lsnVars == <<listener, task, exp_backoff, server_cert, routes, late, conns, wire>>

netVars == <<meshVars, inboxVars, histVars, lsnVars>>

idxVars == <<index, last>>

treeVars == <<plugin, buried, out, conv>>

logVars == <<stream, file, open, loaded, segment, synced>>

(* plugin is the TreeAuthorityPlugin; buried holds the keys whose          *)
(* authorization, with a Specific read option, a tombstone removed and no  *)
(* later event restored; out describes the call made on the plugin and its *)
(* result, until the caller has taken it (NoOut: no call is pending); conv *)
(* is the ConversationSession of the connection events arrive on.          *)
NoOut == [op |-> "none"]

(* inside_async is the lock around ChainProtectedAsync: single names the   *)
(* task holding a ChainSingleUser (0: none), writer the task holding a     *)
(* write guard taken directly (0: none), readers the tasks holding a read  *)
(* guard; disable_new_roots is the flag of ChainProtectedAsync; destroyed  *)
(* whether destroy was run on the chain.                                   *)
Unlocked == [single |-> 0, writer |-> 0, readers |-> {}]

KeysOf(meta, t) == {meta[i].k : i \in {j \in 1..Len(meta) : meta[j].t = t}}

NoLast == [tomb |-> 0, tombs |-> {}, data |-> {}, had |-> FALSE, again |-> FALSE]

Summary(ix, prev, e) ==
  LET k == get_tombstone(e.meta) IN
  [tomb |-> k,
   tombs |-> KeysOf(e.meta, "Tombstone"),
   data |-> IF e.data THEN KeysOf(e.meta, "Data") ELSE {},
   had |-> k \in DOMAIN ix.primary /\ k \in DOMAIN ix.parent,
   again |-> k # 0 /\ prev.tomb = k]

(* errs counts the accept errors of the accept task since its last         *)
(* successful accept, up to MaxErrs.                                       *)
(* sigs is the state of the plugin's SignaturePlugin: the pairs of an      *)
(* event hash and the hash of a key whose signature over it was fed.       *)
(* seen is what the events fed to the indexer say about each key, kept     *)
(* apart from the indexer's maps: for a key written since it was last      *)
(* removed, the timestamp of the first event that wrote it and the hash    *)
(* and timestamp of the latest one.  An event writes key k when it has a   *)
(* Data(k) tag, a data hash and no Tombstone tag; it removes k when its    *)
(* first Tombstone tag is Tombstone(k).                                    *)
Written(first, hash, when) == [first |-> first, hash |-> hash, when |-> when]

Observe(sn, e) ==
  IF get_tombstone(e.meta) # 0 THEN MapRemove(sn, get_tombstone(e.meta))
  ELSE IF ~e.data THEN sn
  ELSE LET ks == KeysOf(e.meta, "Data")
           when == get_timestamp(e.meta)
       IN [k \in DOMAIN sn \cup ks |->
             IF k \in ks
               THEN Written(IF k \in DOMAIN sn THEN sn[k].first ELSE when, e.hash, when)
               ELSE sn[k]]

Init ==
  /\ index = BinaryTreeIndexer
  /\ last = NoLast
  /\ stream = <<>>
  /\ file = <<>>
  /\ open = TRUE
  /\ loaded = FALSE
  /\ segment = 1
  /\ synced = 0
  /\ plugin = TreeAuthorityPlugin
  /\ buried = {}
  /\ out = NoOut
  /\ conv = ConversationSession(FALSE)
  /\ alive = TRUE
  /\ pc = "run"
  /\ commit = {}
  /\ senders = {}
  /\ replies = [id \in 1..NumCommits |-> <<>>]
  /\ lock_requests = {}
  /\ lock_replies = [key \in Keys |-> <<>>]
  /\ sniffers = 0
  /\ status_tx = <<>>
  /\ returned = "none"
  /\ chain = TRUE
  /\ loader = <<Loader({1})>>
  /\ loader_log = <<>>
  /\ pipe = <<>>
  /\ upstream = <<>>
  /\ timeline = {}
  /\ pointers = {}
  /\ listener = FALSE
  /\ task = "none"
  /\ exp_backoff = StartBackoff
  /\ server_cert = 0
  /\ routes = {}
  /\ late = FALSE
  /\ conns = <<>>
  /\ wire = NoWire
  /\ inside_async = Unlocked
  /\ disable_new_roots = FALSE
  /\ destroyed = FALSE
  /\ seen = EmptyMap
  /\ sigs = {}
  /\ errs = 0

IndexFeed(e) ==
  /\ index' = FeedIdx(index, e)
  /\ last' = Summary(index, last, e)
  /\ seen' = Observe(seen, e)
  /\ UNCHANGED <<errs, sigs, leaseVars, netVars, logVars, treeVars>>

NextIdx == \E e \in IdxEvents : IndexFeed(e)

SpecIdx == Init /\ [][NextIdx]_vars

(***************************************************************************)
(* The redo log under a chain: append, flush, sync, close and reopen.      *)
(***************************************************************************)
(* LogAppender::write: the frame goes to the buffered stream; the chain    *)
(* then feeds the header to the indexer.                                   *)
LogWrite(evt) ==
  /\ open
  /\ Len(file) + Len(stream) < MaxLog
  /\ stream' = Append(stream, evt)
  /\ index' = FeedIdx(index, as_header(evt))
  /\ UNCHANGED <<errs, sigs, seen, leaseVars, netVars, synced, last, file, open, loaded, segment, treeVars>>

LogFlush ==
  /\ open
  /\ file' = file \o stream
  /\ stream' = <<>>
  /\ UNCHANGED <<errs, sigs, seen, leaseVars, netVars, synced, index, last, open, loaded, segment, treeVars>>

(* a sync that does not flush the write buffer first *)
LogSyncNoFlush(fsync_ok) ==
  /\ open
  /\ synced' = IF fsync_ok THEN Len(file) ELSE synced
  /\ UNCHANGED <<errs, sigs, seen, leaseVars, netVars, index, last, stream, file, open, loaded, segment, treeVars>>

(* LogAppender::sync: flush, then file.sync_all(); fsync_ok is whether     *)
(* sync_all succeeds, that is whether sync returns Ok.  synced counts the  *)
(* leading frames of the file that an fsync has covered.                   *)
LogSync(fsync_ok) ==
  /\ open
  /\ file' = file \o stream
  /\ stream' = <<>>
  /\ synced' = IF fsync_ok THEN Len(file') ELSE synced
  /\ UNCHANGED <<errs, sigs, seen, leaseVars, netVars, index, last, open, loaded, segment, treeVars>>

(* a drop that discards the write buffer *)
LogDropNoShutdown ==
  /\ open
  /\ open' = FALSE
  /\ stream' = <<>>
  /\ UNCHANGED <<errs, sigs, seen, leaseVars, netVars, synced, index, last, file, loaded, segment, treeVars>>

(* Drop for LogAppender: stream.shutdown() writes the buffer out *)
LogDrop ==
  /\ open
  /\ open' = FALSE
  /\ file' = file \o stream
  /\ stream' = <<>>
  /\ UNCHANGED <<errs, sigs, seen, leaseVars, netVars, synced, index, last, loaded, segment, treeVars>>

LogReopen ==
  /\ ~open
  /\ open' = TRUE
  /\ loaded' = TRUE
  /\ index' = LoadIndex(file)
  /\ UNCHANGED <<errs, sigs, seen, leaseVars, netVars, synced, last, stream, file, segment, treeVars>>

(* Compaction: the buffer is written out, the kept frames go to a new log  *)
(* segment that replaces the file, and the index is rebuilt from them.     *)
LogCompact ==
  /\ open
  /\ segment < MaxSegments
  /\ segment' = segment + 1
  /\ file' = CompactLog(file \o stream)
  /\ stream' = <<>>
  /\ index' = LoadIndex(file')
  /\ synced' = 0
  /\ UNCHANGED <<errs, sigs, seen, leaseVars, netVars, last, open, loaded, treeVars>>

NextLog ==
  \/ \E evt \in LogEvents : LogWrite(evt)
  \/ LogFlush
  \/ \E fsync_ok \in BOOLEAN : LogSync(fsync_ok)
  \/ LogDrop
  \/ LogReopen
  \/ LogCompact

SpecLog == Init /\ [][NextLog]_vars

(***************************************************************************)
(* Authorization resolution on a plugin that events were fed to.           *)
(***************************************************************************)
(* The authorizations events carry in this specification. *)
AuthValues ==
  {MetaAuthorization(ReadInherit, WriteInherit),
   MetaAuthorization(ReadSpecific(1, DerivedEncryptKey(1, 1)), WriteSpecific(1)),
   MetaAuthorization(ReadEveryone(0), WriteInherit),
   MetaAuthorization(ReadInherit, WriteNobody),
   MetaAuthorization(ReadEveryone(1), WriteAny(SignHashes))}

OptionOf(S) == {<<>>} \cup {<<x>> : x \in S}

AuthMetas ==
  {Metadata(k, 0, a, q, <<>>, 0, TRUE) :
     k \in Keys \cup {0}, a \in OptionOf(AuthValues), q \in Keys \cup {0}}

TombstoneMetas == {Metadata(0, k, <<>>, 0, <<>>, 0, TRUE) : k \in Keys}

(* transactions with at most one pending authorization or pending parent *)
Map1(D, R) == {[x \in {k} |-> v] : k \in D, v \in R}

AuthTrans ==
  {DefaultTransactionMetadata}
    \cup {TransactionMetadata(a, EmptyMap) : a \in Map1(Keys, AuthValues)}
    \cup {TransactionMetadata(EmptyMap, q) : q \in Map1(Keys, Keys)}

(* The parent pointers the walk follows: trans_meta first, then the plugin *)
EffParents(p, trans_meta) ==
  [k \in DOMAIN trans_meta.parents \cup DOMAIN p.parents |->
     Lookup2(trans_meta.parents, p.parents, k)[1]]

RECURSIVE ReturnsTo(_, _, _, _)
ReturnsTo(E, start, cur, n) ==
  /\ cur \in DOMAIN E
  /\ \/ E[cur] = start
     \/ n > 0 /\ ReturnsTo(E, start, E[cur], n - 1)

Acyclic(E) == \A k \in DOMAIN E : ~ReturnsTo(E, k, k, NumKeys)

HasInherit(auth) == auth.read = ReadInherit \/ auth.write = WriteInherit

TreeFeed(meta) ==
  /\ out = NoOut
  /\ plugin' = PluginFeed(plugin, meta)
  /\ buried' =
       IF meta.tomb # 0
         THEN IF meta.tomb \in DOMAIN plugin.auth /\ plugin.auth[meta.tomb].read.t = "Specific"
                THEN buried \cup {meta.tomb} ELSE buried
         ELSE buried \ {meta.key}
  /\ out' = NoOut
  /\ UNCHANGED <<errs, sigs, seen, leaseVars, netVars, idxVars, logVars, conv>>

SetRootKeys(hs) ==
  /\ out = NoOut
  /\ plugin' = set_root_keys(plugin, hs)
  /\ out' = NoOut
  /\ UNCHANGED <<errs, sigs, seen, leaseVars, netVars, idxVars, logVars, buried, conv>>

(* TreeAuthorityPlugin::add_root_public_key *)
AddRootPublicKey(h) ==
  /\ out = NoOut
  /\ plugin' = add_root_public_key(plugin, h)
  /\ out' = NoOut
  /\ UNCHANGED <<errs, sigs, seen, leaseVars, netVars, idxVars, logVars, buried, conv>>

(* out: the result, and of the call: the data key, the authorization the   *)
(* resolution started from, the parent the metadata names, whether that    *)
(* parent has no authorization in trans_meta or the plugin, and whether    *)
(* the parent pointers of trans_meta and the plugin are acyclic.           *)
ComputeAuth(meta, trans_meta, phase) ==
  /\ out = NoOut
  /\ out' = [op |-> "compute_auth",
             res |-> compute_auth(plugin, meta, trans_meta, phase),
             key |-> meta.key,
             own |-> OwnAuth(plugin, meta, trans_meta, phase),
             names |-> meta.parent,
             orphan |-> meta.parent # 0
                          /\ Lookup2(trans_meta.auth, plugin.auth, meta.parent) = <<>>,
             acyclic |-> Acyclic(EffParents(plugin, trans_meta))]
  /\ UNCHANGED <<errs, sigs, seen, leaseVars, netVars, idxVars, logVars, plugin, buried, conv>>

(* the caller takes the result *)
Return ==
  /\ out # NoOut
  /\ out' = NoOut
  /\ UNCHANGED <<errs, sigs, seen, leaseVars, netVars, idxVars, logVars, plugin, buried, conv>>

NextAuth ==
  \/ \E meta \in AuthMetas \cup TombstoneMetas : TreeFeed(meta)
  \/ \E hs \in SUBSET SignHashes : SetRootKeys(hs)
  \/ \E h \in SignHashes : AddRootPublicKey(h)
  \/ \E meta \in AuthMetas, trans_meta \in AuthTrans, phase \in {"BeforeStore", "AfterStore"} :
       ComputeAuth(meta, trans_meta, phase)
  \/ Return

SpecAuth == Init /\ [][NextAuth]_vars

(***************************************************************************)
(* Validation of events that arrive on a conversation.                     *)
(***************************************************************************)
ValMetas ==
  {Metadata(k, 0, <<>>, q, <<>>, 0, needs) :
     k \in Keys, q \in Keys \cup {0}, needs \in BOOLEAN}
    \cup {Metadata(0, 0, <<>>, 0, <<>>, 0, needs) : needs \in BOOLEAN}

(* an event carries a signature, or the plugin has verified signatures for *)
(* its hash, or neither                                                    *)
ValHeaders ==
  {ValHeader(meta, data, signed, {}) :
     meta \in ValMetas, data \in BOOLEAN, signed \in SignHashes \cup {0}}
    \cup {ValHeader(meta, data, 0, {h}) :
            meta \in ValMetas, data \in BOOLEAN, h \in SignHashes}

SetIntegrityMode(mode) ==
  /\ out = NoOut
  /\ plugin.integrity # mode
  /\ plugin' = set_integrity_mode(plugin, mode)
  /\ UNCHANGED <<errs, sigs, seen, leaseVars, netVars, idxVars, logVars, buried, out, conv>>

(* a new connection: a fresh ConversationSession *)
NewConversation(server) ==
  /\ out = NoOut
  /\ conv # ConversationSession(server)
  /\ conv' = ConversationSession(server)
  /\ UNCHANGED <<errs, sigs, seen, leaseVars, netVars, idxVars, logVars, plugin, buried, out>>

(* validate on an event, with the conversation or without one.  out: the   *)
(* result, and of the call: whether the event requires a signature, the    *)
(* resolved authorization, the verified signatures, the signature the      *)
(* event carried and whether a conversation was passed.                    *)
Validate(header, with_conv) ==
  /\ out = NoOut
  /\ conv' = IF with_conv THEN SignatureValidate(conv, header) ELSE conv
  /\ out' = [op |-> "validate",
             res |-> validate(plugin, header, IF with_conv THEN <<conv'>> ELSE <<>>),
             requires |-> RequiresSignature(header),
             auth |-> ValidateAuth(plugin, header),
             verified |-> header.verified,
             signed |-> header.signed,
             conv |-> with_conv]
  /\ UNCHANGED <<errs, sigs, seen, leaseVars, netVars, idxVars, logVars, plugin, buried>>

NextVal ==
  \/ \E meta \in AuthMetas \cup TombstoneMetas : TreeFeed(meta)
  \/ \E mode \in {"Distributed", "Centralized"} : SetIntegrityMode(mode)
  \/ \E server \in BOOLEAN : NewConversation(server)
  \/ \E header \in ValHeaders, with_conv \in BOOLEAN : Validate(header, with_conv)
  \/ Return

SpecVal == Init /\ [][NextVal]_vars

(***************************************************************************)
(* The write path (lint, then underlay) and the read path (overlay).       *)
(***************************************************************************)
Sessions ==
  {Session(r, {}, {1}) : r \in SUBSET ReadHashes}
    \cup {Session({}, {1}, {1}), Session({1}, {}, {})}

CryptTrans ==
  {DefaultTransactionMetadata,
   TransactionMetadata(
     [x \in {1} |-> MetaAuthorization(ReadSpecific(2, DerivedEncryptKey(2, 2)),
                                      WriteEveryone)],
     EmptyMap)}

(* the metadata a transaction builds for a row it stores *)
CryptMetas ==
  {Metadata(k, 0, a, q, <<>>, 0, TRUE) :
     k \in Keys, a \in OptionOf(AuthValues), q \in Keys \cup {0}}
    \cup {Metadata(0, 0, <<>>, 0, <<>>, 0, TRUE)}

Payloads == {Plain(b) : b \in 1..NumPayloads}

(* the metadata of events read back: with or without a Confidentiality,    *)
(* its cache present or not, with or without an InitializationVector       *)
ReadConfs ==
  {<<>>,
   <<MetaConfidentiality(short_hash(1), <<>>)>>,
   <<MetaConfidentiality(short_hash(2), <<>>)>>,
   <<MetaConfidentiality(short_hash(1), <<ReadSpecific(1, DerivedEncryptKey(1, 1))>>)>>,
   <<MetaConfidentiality(short_hash(1), <<ReadEveryone(1)>>)>>}

ReadAuths ==
  {<<>>,
   <<MetaAuthorization(ReadSpecific(1, DerivedEncryptKey(1, 1)), WriteSpecific(1))>>,
   <<MetaAuthorization(ReadEveryone(1), WriteAny(SignHashes))>>}

ReadMetas ==
  {Metadata(k, 0, a, q, cf, iv, TRUE) :
     k \in Keys, a \in ReadAuths, q \in {0, NumKeys}, cf \in ReadConfs, iv \in {0, 1}}

StoredBytes == Payloads \cup {encrypt_with_iv(1, 1, w) : w \in Payloads}

(* the session holds the read key a Specific read option names, and the    *)
(* key it unwraps has the hash the Confidentiality records                 *)
HoldsKey(read, confidentiality, session) ==
  /\ read.t = "Specific"
  /\ read.k \in session.read_keys \cup session.private_read_keys
  /\ transmute(read.d, read.k) # <<>>
  /\ short_hash(transmute(read.d, read.k)[1]) = confidentiality.hash

(* metadata_lint_event on the transaction's metadata; the Confidentiality  *)
(* it returns is added to the metadata, sign_with holds the keys of the    *)
(* SignWith it returns ({}: no SignWith)                                   *)
Lint(meta, session, trans_meta) ==
  /\ out = NoOut
  /\ LET r == metadata_lint_event(plugin, meta, session, trans_meta) IN
     out' = [op |-> "lint",
             st |-> r.st,
             sign_with |-> r.sign_with,
             meta |-> [meta EXCEPT !.conf = r.conf],
             session |-> session,
             trans_meta |-> trans_meta]
  /\ UNCHANGED <<errs, sigs, seen, leaseVars, netVars, idxVars, logVars, plugin, buried, conv>>

(* data_as_underlay on the linted metadata, in the same transaction *)
Underlay(with, iv) ==
  /\ out.op = "lint"
  /\ out.st = "Ok"
  /\ LET r == data_as_underlay(plugin, out.meta, with, out.session, out.trans_meta, iv) IN
     out' = [op |-> "underlay",
             st |-> r.st,
             meta |-> r.meta,
             data |-> r.data,
             with |-> with,
             session |-> out.session,
             read |-> UnderlayAuth(plugin, out.meta, out.trans_meta)]
  /\ UNCHANGED <<errs, sigs, seen, leaseVars, netVars, idxVars, logVars, plugin, buried, conv>>

(* data_as_overlay on an event read back.  out: the result, and of the     *)
(* call: the bytes given, the Confidentiality and the IV of the metadata,  *)
(* the read option get_encrypt_key works with and whether the session      *)
(* holds its key.                                                          *)
Overlay(meta, with, session) ==
  /\ out = NoOut
  /\ LET r == data_as_overlay(plugin, meta, with, session)
         a == IF meta.conf # <<>> THEN ReadAuth(plugin, meta, meta.conf[1])
              ELSE AuthResult("Ok", 0, ReadInherit, WriteInherit)
     IN out' = [op |-> "overlay",
                st |-> r.st,
                data |-> r.data,
                with |-> with,
                conf |-> meta.conf,
                iv |-> meta.iv,
                read |-> a,
                holds |-> meta.conf # <<>> /\ a.st = "Ok"
                            /\ HoldsKey(a.read, meta.conf[1], session)]
  /\ UNCHANGED <<errs, sigs, seen, leaseVars, netVars, idxVars, logVars, plugin, buried, conv>>

(* the metadata as it is read back: as the write path left it, or with the *)
(* Confidentiality's cached read option gone                               *)
ReadBack(meta, cached) ==
  IF cached \/ meta.conf = <<>> THEN meta
  ELSE [meta EXCEPT !.conf = <<MetaConfidentiality(meta.conf[1].hash, <<>>)>>]

SessionHolds(session, key_hash) ==
  key_hash \in session.read_keys \cup session.private_read_keys

(* data_as_overlay on the event the write path produced, by some session.  *)
(* out: the result, and of the call: the payload that was written, the     *)
(* read option it was written under, the one get_encrypt_key works with,   *)
(* whether the writing session held the read key, whether the reading      *)
(* session is the writing one and whether it holds the read key.           *)
OverlayWritten(session, cached) ==
  /\ out.op = "underlay"
  /\ out.st = "Ok"
  /\ LET meta == ReadBack(out.meta, cached)
         r == data_as_overlay(plugin, meta, out.data, session)
         wrote == out.read.read
     IN out' = [op |-> "read_written",
                st |-> r.st,
                data |-> r.data,
                payload |-> out.with,
                wrote |-> wrote,
                read |-> IF meta.conf # <<>> THEN ReadAuth(plugin, meta, meta.conf[1])
                         ELSE AuthResult("Ok", 0, ReadInherit, WriteInherit),
                cached |-> cached,
                writer_held |-> wrote.t = "Specific" /\ SessionHolds(out.session, wrote.k),
                same |-> session = out.session,
                holds |-> wrote.t = "Specific" /\ SessionHolds(session, wrote.k)]
  /\ UNCHANGED <<errs, sigs, seen, leaseVars, netVars, idxVars, logVars, plugin, buried, conv>>

NextCrypt ==
  \/ \E meta \in AuthMetas \cup TombstoneMetas : TreeFeed(meta)
  \/ \E meta \in CryptMetas, session \in Sessions, trans_meta \in CryptTrans :
       Lint(meta, session, trans_meta)
  \/ \E with \in Payloads, iv \in IVs : Underlay(with, iv)
  \/ \E meta \in ReadMetas, with \in StoredBytes, session \in Sessions :
       Overlay(meta, with, session)
  \/ \E session \in Sessions, cached \in BOOLEAN : OverlayWritten(session, cached)
  \/ Return

SpecCrypt == Init /\ [][NextCrypt]_vars

(***************************************************************************)
(* The mesh session of a client chain and the processor of its inbound     *)
(* connection.  alive: the MeshSession has not been dropped.  pc: where    *)
(* the processor of the connection is: "run" while packets are processed,  *)
(* then the steps of shutdown, then "down".  commit is the commit table    *)
(* (the ids registered; the sender kept under an id is the reply channel   *)
(* of that id), senders the local vector of cancel_commits, replies what   *)
(* each reply channel has received, lock_requests the pending lock         *)
(* requests by key, lock_replies what each requester has received,         *)
(* sniffers the number of sniffers on the chain, status_tx the status      *)
(* changes sent, returned what process returned last.                      *)
(***************************************************************************)
CommitIds == 1..NumCommits

Errs == 1..NumErrs

CommitOk(id) == [t |-> "Ok", v |-> id]

RootError(err) == [t |-> "RootError", v |-> err]

Aborted == [t |-> "Aborted", v |-> 0]

(* Sender::send on the reply channel kept under id *)
Send(rs, id, r) == [rs EXCEPT ![id] = Append(@, r)]

(* a confirmation that completes every outstanding commit *)
inbox_confirmedAll(table, rs, id) ==
  IF id \in table
  THEN [commit |-> {},
        replies |-> [o \in DOMAIN rs |-> IF o \in table THEN Append(rs[o], CommitOk(id)) ELSE rs[o]]]
  ELSE [commit |-> table, replies |-> rs]

(* MeshSession::inbox_confirmed *)
inbox_confirmed(table, rs, id) ==
  IF id \in table
  THEN [commit |-> table \ {id}, replies |-> Send(rs, id, CommitOk(id))]
  ELSE [commit |-> table, replies |-> rs]

(* a commit error that leaves the entry in the table *)
inbox_commit_errorKeep(table, rs, id, err) ==
  IF id \in table
  THEN [commit |-> table, replies |-> Send(rs, id, RootError(err))]
  ELSE [commit |-> table, replies |-> rs]

(* MeshSession::inbox_commit_error *)
inbox_commit_error(table, rs, id, err) ==
  IF id \in table
  THEN [commit |-> table \ {id}, replies |-> Send(rs, id, RootError(err))]
  ELSE [commit |-> table, replies |-> rs]

(* LockRequest::entropy for a request that waits for one root: the answer  *)
(* reaches the requester and the request is complete                       *)
entropy(lr, key, is_locked) ==
  [lr EXCEPT ![key] = Append(@, IF is_locked THEN "locked" ELSE "refused")]

(* MeshSession::inbox_lock_result *)
inbox_lock_result(reqs, lr, key, is_locked) ==
  IF key \in reqs
  THEN [lock_requests |-> reqs \ {key}, lock_replies |-> entropy(lr, key, is_locked)]
  ELSE [lock_requests |-> reqs, lock_replies |-> lr]

(* a cancel_locks that forgets the requests without cancelling them *)
cancel_locksSilent(reqs, lr) ==
  [lock_requests |-> {}, lock_replies |-> lr]

(* MeshSession::cancel_locks *)
cancel_locks(reqs, lr) ==
  [lock_requests |-> {},
   lock_replies |-> [key \in DOMAIN lr |->
                       IF key \in reqs THEN Append(lr[key], "cancelled") ELSE lr[key]]]

(* MeshSession::cancel_sniffers *)
cancel_sniffers(chain_alive, n) == IF chain_alive THEN 0 ELSE n

(* A transaction that waits for the root is registered in the commit table *)
(* under a fresh id while the connection is up.                            *)
RegisterCommit(id) ==
  /\ alive
  /\ pc = "run"
  /\ id \notin commit
  /\ replies[id] = <<>>
  /\ commit' = commit \cup {id}
  /\ UNCHANGED <<errs, sigs, seen, leaseVars, lsnVars, idxVars, logVars, treeVars, inboxVars, histVars,
                 alive, pc, senders, replies, lock_requests, lock_replies,
                 sniffers, status_tx, returned>>

RegisterLock(key) ==
  /\ alive
  /\ pc = "run"
  /\ key \notin lock_requests
  /\ lock_replies[key] = <<>>
  /\ lock_requests' = lock_requests \cup {key}
  /\ UNCHANGED <<errs, sigs, seen, leaseVars, lsnVars, idxVars, logVars, treeVars, inboxVars, histVars,
                 alive, pc, commit, senders, replies, lock_replies,
                 sniffers, status_tx, returned>>

AddSniffer ==
  /\ alive
  /\ chain
  /\ pc = "run"
  /\ sniffers < MaxSniffers
  /\ sniffers' = sniffers + 1
  /\ UNCHANGED <<errs, sigs, seen, leaseVars, lsnVars, idxVars, logVars, treeVars, inboxVars, histVars,
                 alive, pc, commit, senders, replies, lock_requests,
                 lock_replies, status_tx, returned>>

(* MeshSessionProcessor::process of Confirmed(id) *)
InboxConfirmed(id) ==
  /\ pc = "run"
  /\ IF alive
     THEN LET r == inbox_confirmed(commit, replies, id)
          IN /\ commit' = r.commit
             /\ replies' = r.replies
             /\ returned' = "Ok"
     ELSE /\ returned' = "Disconnected"
          /\ UNCHANGED <<commit, replies>>
  /\ UNCHANGED <<errs, sigs, seen, leaseVars, lsnVars, idxVars, logVars, treeVars, inboxVars, histVars,
                 alive, pc, senders, lock_requests, lock_replies,
                 sniffers, status_tx>>

(* MeshSessionProcessor::process of CommitError{id, err} *)
InboxCommitError(id, err) ==
  /\ pc = "run"
  /\ IF alive
     THEN LET r == inbox_commit_error(commit, replies, id, err)
          IN /\ commit' = r.commit
             /\ replies' = r.replies
             /\ returned' = "Ok"
     ELSE /\ returned' = "Disconnected"
          /\ UNCHANGED <<commit, replies>>
  /\ UNCHANGED <<errs, sigs, seen, leaseVars, lsnVars, idxVars, logVars, treeVars, inboxVars, histVars,
                 alive, pc, senders, lock_requests, lock_replies,
                 sniffers, status_tx>>

(* MeshSessionProcessor::process of LockResult{key, is_locked} *)
InboxLockResult(key, is_locked) ==
  /\ pc = "run"
  /\ IF alive
     THEN LET r == inbox_lock_result(lock_requests, lock_replies, key, is_locked)
          IN /\ lock_requests' = r.lock_requests
             /\ lock_replies' = r.lock_replies
             /\ returned' = "Ok"
     ELSE /\ returned' = "Disconnected"
          /\ UNCHANGED <<lock_requests, lock_replies>>
  /\ UNCHANGED <<errs, sigs, seen, leaseVars, lsnVars, idxVars, logVars, treeVars, inboxVars, histVars,
                 alive, pc, commit, senders, replies, sniffers, status_tx>>

(* MeshSessionProcessor::shutdown begins: the inbound connection is shut   *)
(* down or has failed; session.upgrade() decides whether there is anything *)
(* to cancel.                                                              *)
Shutdown ==
  /\ pc = "run"
  /\ pc' = IF alive THEN "cancel_commits" ELSE "status"
  /\ UNCHANGED <<errs, sigs, seen, leaseVars, lsnVars, idxVars, logVars, treeVars, inboxVars, histVars,
                 alive, commit, senders, replies, lock_requests, lock_replies,
                 sniffers, status_tx, returned>>

(* cancel_commits: the table is drained under its lock *)
CancelCommitsDrain ==
  /\ pc = "cancel_commits"
  /\ senders' = commit
  /\ commit' = {}
  /\ pc' = "send"
  /\ UNCHANGED <<errs, sigs, seen, leaseVars, lsnVars, idxVars, logVars, treeVars, inboxVars, histVars,
                 alive, replies, lock_requests, lock_replies,
                 sniffers, status_tx, returned>>

(* cancel_commits: one drained sender is sent Aborted *)
CancelCommitsSend(id) ==
  /\ pc = "send"
  /\ id \in senders
  /\ senders' = senders \ {id}
  /\ replies' = Send(replies, id, Aborted)
  /\ UNCHANGED <<errs, sigs, seen, leaseVars, lsnVars, idxVars, logVars, treeVars, inboxVars, histVars,
                 alive, pc, commit, lock_requests, lock_replies,
                 sniffers, status_tx, returned>>

CancelCommitsDone ==
  /\ pc = "send"
  /\ senders = {}
  /\ pc' = "cancel_sniffers"
  /\ UNCHANGED <<errs, sigs, seen, leaseVars, lsnVars, idxVars, logVars, treeVars, inboxVars, histVars,
                 alive, commit, senders, replies, lock_requests, lock_replies,
                 sniffers, status_tx, returned>>

CancelSniffers ==
  /\ pc = "cancel_sniffers"
  /\ sniffers' = cancel_sniffers(chain, sniffers)
  /\ pc' = "cancel_locks"
  /\ UNCHANGED <<errs, sigs, seen, leaseVars, lsnVars, idxVars, logVars, treeVars, inboxVars, histVars,
                 alive, commit, senders, replies, lock_requests, lock_replies,
                 status_tx, returned>>

CancelLocks ==
  /\ pc = "cancel_locks"
  /\ LET r == cancel_locks(lock_requests, lock_replies)
     IN /\ lock_requests' = r.lock_requests
        /\ lock_replies' = r.lock_replies
  /\ pc' = "status"
  /\ UNCHANGED <<errs, sigs, seen, leaseVars, lsnVars, idxVars, logVars, treeVars, inboxVars, histVars,
                 alive, commit, senders, replies, sniffers, status_tx, returned>>

(* shutdown ends: status_tx.send(ConnectionStatusChange::Disconnected) *)
SendDisconnected ==
  /\ pc = "status"
  /\ status_tx' = Append(status_tx, "Disconnected")
  /\ pc' = "down"
  /\ UNCHANGED <<errs, sigs, seen, leaseVars, lsnVars, idxVars, logVars, treeVars, inboxVars, histVars,
                 alive, commit, senders, replies, lock_requests, lock_replies,
                 sniffers, returned>>

(* The session connects again: a new processor serves the new connection.  *)
Reconnect ==
  /\ pc = "down"
  /\ alive
  /\ Len(status_tx) < MaxDisconnects
  /\ pc' = "run"
  /\ UNCHANGED <<errs, sigs, seen, leaseVars, lsnVars, idxVars, logVars, treeVars, inboxVars, histVars,
                 alive, commit, senders, replies, lock_requests, lock_replies,
                 sniffers, status_tx, returned>>

(* Drop for MeshSession.  While shutdown holds the upgraded session the    *)
(* session cannot be dropped.                                              *)
DropSession ==
  /\ alive
  /\ pc \in {"run", "status", "down"}
  /\ alive' = FALSE
  /\ LET r == cancel_locks(lock_requests, lock_replies)
     IN /\ lock_requests' = r.lock_requests
        /\ lock_replies' = r.lock_replies
  /\ sniffers' = cancel_sniffers(chain, sniffers)
  /\ UNCHANGED <<errs, sigs, seen, leaseVars, lsnVars, idxVars, logVars, treeVars, inboxVars, histVars,
                 pc, commit, senders, replies, status_tx, returned>>

NextMesh ==
  \/ \E id \in CommitIds : RegisterCommit(id)
  \/ \E key \in Keys : RegisterLock(key)
  \/ AddSniffer
  \/ \E id \in CommitIds : InboxConfirmed(id)
  \/ \E id \in CommitIds, err \in Errs : InboxCommitError(id, err)
  \/ \E key \in Keys, is_locked \in BOOLEAN : InboxLockResult(key, is_locked)
  \/ Shutdown
  \/ CancelCommitsDrain
  \/ \E id \in CommitIds : CancelCommitsSend(id)
  \/ CancelCommitsDone
  \/ CancelSniffers
  \/ CancelLocks
  \/ SendDisconnected
  \/ Reconnect
  \/ DropSession

SpecMesh == Init /\ [][NextMesh]_vars

(***************************************************************************)
(* The packets of the history exchange.  chain: the chain the session      *)
(* points to is still there (chain.upgrade()); loader is the processor's   *)
(* Option of a loader, loader_log the calls made on that loader, pipe the  *)
(* transactions fed to the chain's pipe, upstream the events the pipe has  *)
(* transmitted to the server, timeline the timestamps of the events of the *)
(* local chain and pointers its delayed-upload markers.                    *)
(***************************************************************************)
NetEvents == 1..NumNetEvents

LocalEvent == NumNetEvents + 1

Packets == {<<>>} \cup SeqsUpTo(NetEvents, MaxPacket)

Stamps == 1..MaxStamp

MinOf(S) == CHOOSE x \in S : \A y \in S : x <= y

MaxOf(S) == CHOOSE x \in S : \A y \in S : y <= x

(* the session pipe transmits the events of a transaction that asks for it *)
pipe_feed(up, trans) == IF trans.transmit THEN up \o trans.events ELSE up

(* an inbox_events that feeds a transaction to be transmitted *)
inbox_eventsTransmit(evts, ld) ==
  Transaction("Full", TRUE, evts, "inbound")

(* MeshSession::inbox_events: the transaction fed to the chain's pipe *)
inbox_events(evts, ld) ==
  LET feed_me == IF ld # <<>>
                 THEN SelectSeq(evts, LAMBDA e : ~relevance_check(ld[1], e))
                 ELSE evts
  IN Transaction("Local", FALSE, feed_me, "inbound")

(* range_keys(from..) *)
range_keys(tl, from) == {k \in tl : k >= from}

(* iter.next(); iter.next() on range_keys(to..) *)
second_key(tl, to) ==
  LET r == range_keys(tl, to)
  IN IF r = {} THEN <<>>
     ELSE LET rest == r \ {MinOf(r)}
          IN IF rest = {} THEN <<>> ELSE <<MinOf(rest)>>

(* timeline.pointers.get_delayed_upload(from) *)
get_delayed_upload(ptrs, from) == {m \in ptrs : m.from = from}

(* MeshSession::record_delayed_upload *)
record_delayed_upload(tl, ptrs, pivot) ==
  LET r == range_keys(tl, pivot)
  IN IF r = {} THEN ptrs
     ELSE LET from == MinOf(r)
          IN IF get_delayed_upload(ptrs, from) # {} THEN ptrs
             ELSE ptrs \cup {MetaDelayedUpload(FALSE, from, MaxOf(range_keys(tl, from)))}

(* a start of history that takes the first key at or after to as the pivot *)
start_of_history_uploadFirst(tl, ptrs, to) ==
  IF to = <<>> THEN ptrs
  ELSE IF range_keys(tl, to[1]) = {} THEN ptrs
       ELSE record_delayed_upload(tl, ptrs, MinOf(range_keys(tl, to[1])))

(* MeshSession::inbox_start_of_history, the delayed upload; to is an Option *)
start_of_history_upload(tl, ptrs, to) ==
  IF to = <<>> THEN ptrs
  ELSE LET next == second_key(tl, to[1])
       IN IF next = <<>> THEN ptrs
          ELSE record_delayed_upload(tl, ptrs, next[1])

(* An event is written to the local chain: its timestamp joins the         *)
(* timeline.                                                               *)
LocalAppend(t) ==
  /\ chain
  /\ t \notin timeline
  /\ timeline' = timeline \cup {t}
  /\ UNCHANGED <<errs, sigs, seen, leaseVars, lsnVars, idxVars, logVars, treeVars, meshVars, inboxVars, pointers>>

(* A local commit: the transaction asks to be transmitted. *)
LocalCommit ==
  /\ chain
  /\ alive
  /\ pc = "run"
  /\ Len(pipe) < MaxFed
  /\ LET trans == Transaction("Full", TRUE, <<LocalEvent>>, "none")
     IN /\ pipe' = Append(pipe, trans)
        /\ upstream' = pipe_feed(upstream, trans)
  /\ UNCHANGED <<errs, sigs, seen, leaseVars, lsnVars, idxVars, logVars, treeVars, meshVars, histVars,
                 chain, loader, loader_log>>

(* The chain is dropped; the session keeps a weak reference to it. *)
DropChain ==
  /\ chain
  /\ chain' = FALSE
  /\ UNCHANGED <<errs, sigs, seen, leaseVars, lsnVars, idxVars, logVars, treeVars, meshVars, histVars,
                 loader, loader_log, pipe, upstream>>

(* MeshSessionProcessor::process of StartOfHistory *)
InboxStartOfHistory(size, to, root_keys, integrity) ==
  /\ pc = "run"
  /\ Len(loader_log) < MaxNotes
  /\ IF alive
     THEN /\ IF chain
             THEN /\ plugin' = set_root_keys(set_integrity_mode(plugin, integrity), root_keys)
                  /\ pointers' = start_of_history_upload(timeline, pointers, to)
             ELSE UNCHANGED <<plugin, pointers>>
          /\ loader_log' = IF loader # <<>>
                           THEN Append(loader_log, Note("start_of_history", <<size>>))
                           ELSE loader_log
          /\ returned' = "Ok"
     ELSE /\ returned' = "Disconnected"
          /\ UNCHANGED <<plugin, pointers, loader_log>>
  /\ UNCHANGED <<errs, sigs, seen, leaseVars, lsnVars, idxVars, logVars, buried, out, conv, timeline,
                 alive, pc, commit, senders, replies, lock_requests, lock_replies,
                 sniffers, status_tx, chain, loader, pipe, upstream>>

(* MeshSessionProcessor::process of Events *)
InboxEvents(evts) ==
  /\ pc = "run"
  /\ Len(pipe) < MaxFed
  /\ IF alive
     THEN /\ IF chain
             THEN LET trans == inbox_events(evts, loader)
                  IN /\ loader_log' = IF loader # <<>>
                                      THEN Append(loader_log, Note("feed_events", evts))
                                      ELSE loader_log
                     /\ pipe' = Append(pipe, trans)
                     /\ upstream' = pipe_feed(upstream, trans)
             ELSE UNCHANGED <<loader_log, pipe, upstream>>
          /\ returned' = "Ok"
     ELSE /\ returned' = "Disconnected"
          /\ UNCHANGED <<loader_log, pipe, upstream>>
  /\ UNCHANGED <<errs, sigs, seen, leaseVars, lsnVars, idxVars, logVars, treeVars, histVars,
                 alive, pc, commit, senders, replies, lock_requests, lock_replies,
                 sniffers, status_tx, chain, loader>>

(* an end of history that notifies the loader and keeps it *)
InboxEndOfHistoryKeep ==
  /\ pc = "run"
  /\ IF alive
     THEN /\ loader' = loader
          /\ loader_log' = IF loader # <<>>
                           THEN Append(loader_log, Note("end_of_history", <<>>))
                           ELSE loader_log
          /\ returned' = "Ok"
     ELSE /\ returned' = "Disconnected"
          /\ UNCHANGED <<loader, loader_log>>
  /\ UNCHANGED <<errs, sigs, seen, leaseVars, lsnVars, idxVars, logVars, treeVars, histVars,
                 alive, pc, commit, senders, replies, lock_requests, lock_replies,
                 sniffers, status_tx, chain, pipe, upstream>>

(* MeshSessionProcessor::process of EndOfHistory *)
InboxEndOfHistory ==
  /\ pc = "run"
  /\ IF alive
     THEN /\ loader' = <<>>
          /\ loader_log' = IF loader # <<>>
                           THEN Append(loader_log, Note("end_of_history", <<>>))
                           ELSE loader_log
          /\ returned' = "Ok"
     ELSE /\ returned' = "Disconnected"
          /\ UNCHANGED <<loader, loader_log>>
  /\ UNCHANGED <<errs, sigs, seen, leaseVars, lsnVars, idxVars, logVars, treeVars, histVars,
                 alive, pc, commit, senders, replies, lock_requests, lock_replies,
                 sniffers, status_tx, chain, pipe, upstream>>

(* MeshSessionProcessor::process of FatalTerminate(fatal) *)
InboxFatalTerminate(fatal) ==
  /\ pc = "run"
  /\ IF alive
     THEN /\ loader' = <<>>
          /\ loader_log' = IF loader # <<>>
                           THEN Append(loader_log, Note("failed", <<fatal>>))
                           ELSE loader_log
     ELSE UNCHANGED <<loader, loader_log>>
  /\ returned' = "Disconnected"
  /\ UNCHANGED <<errs, sigs, seen, leaseVars, lsnVars, idxVars, logVars, treeVars, histVars,
                 alive, pc, commit, senders, replies, lock_requests, lock_replies,
                 sniffers, status_tx, chain, pipe, upstream>>

NextInbox ==
  \/ LocalCommit
  \/ DropChain
  \/ DropSession
  \/ \E size \in 1..NumSizes, integrity \in {"Centralized", "Distributed"} :
       InboxStartOfHistory(size, <<>>, {1}, integrity)
  \/ \E evts \in Packets : InboxEvents(evts)
  \/ InboxEndOfHistory
  \/ \E fatal \in Errs : InboxFatalTerminate(fatal)

SpecInbox == Init /\ [][NextInbox]_vars

(* The start of history on a chain that holds local events. *)
NextHist ==
  \/ \E t \in Stamps : LocalAppend(t)
  \/ DropChain
  \/ \E size \in 1..NumSizes, to \in {<<>>} \cup {<<t>> : t \in Stamps},
        root_keys \in {{}, {1}}, integrity \in {"Centralized", "Distributed"} :
       InboxStartOfHistory(size, to, root_keys, integrity)
  \/ InboxEndOfHistory

SpecHist == Init /\ [][NextHist]_vars

(* A client chain over its connections.  Init is the chain as              *)
(* MeshSession::connect leaves it: loaded from its local log and set to    *)
(* Distributed.  The processor of the connection takes StartOfHistory      *)
(* packets while it runs, shuts down when the connection is lost, and a    *)
(* new connection follows.                                                 *)
NextOffline ==
  \/ \E id \in CommitIds : RegisterCommit(id)
  \/ \E size \in 1..NumSizes, root_keys \in {{}, {1}},
        integrity \in {"Centralized", "Distributed"} :
       InboxStartOfHistory(size, <<>>, root_keys, integrity)
  \/ Shutdown
  \/ CancelCommitsDrain
  \/ \E id \in CommitIds : CancelCommitsSend(id)
  \/ CancelCommitsDone
  \/ CancelSniffers
  \/ CancelLocks
  \/ SendDisconnected
  \/ Reconnect

SpecOffline == Init /\ [][NextOffline]_vars

(***************************************************************************)
(* The mesh listener (lib/src/comms/listener.rs).  listener: the Listener  *)
(* that Listener::new returned is still held; task is where the accept     *)
(* task is: "none" before it is spawned, "accept" in tcp_listener.accept,  *)
(* "sleep" in the back-off sleep, "accepted" with a stream in hand,        *)
(* "setup" and "handshake" while the connection is served, "exited" after  *)
(* the break and "panicked" after a panic.  exp_backoff is in              *)
(* milliseconds; server_cert is the size of the certificate (0: none);     *)
(* routes the paths of the route table; late whether the connection in     *)
(* hand was accepted after the Listener was dropped; conns what became of  *)
(* each accepted connection.  Key sizes are 1..NumKeySizes, 0 is None.     *)
(***************************************************************************)
Paths == 1..NumPaths

KeySizes == 0..NumKeySizes

HelloMeta(encryption, path) == [encryption |-> encryption, path |-> path]

Hellos == {<<>>} \cup {<<HelloMeta(e, path)>> : e \in KeySizes, path \in Paths}

Upgrades == {"Ok", "Timeout", "UnexpectedEof", "ConnectionReset"}

(* st: Ok or the error; handed: the inbox task was spawned with the        *)
(* processor; exchanged: the key exchange ran                              *)
Accepted(st, handed, exchanged) == [st |-> st, handed |-> handed, exchanged |-> exchanged]

(* the certificate check of Listener::new and of accept_tcp_connect *)
CertificateCheck(wire_encryption, cert) ==
  IF wire_encryption = 0 THEN "Ok"
  ELSE IF cert = 0 THEN "MissingCertificate"
  ELSE IF cert < wire_encryption THEN "CertificateTooWeak"
  ELSE "Ok"

(* an accept that serves every path *)
accept_tcp_connectAnyPath(up, hello, kx, cert, rts) ==
  IF up # "Ok" THEN Accepted(up, FALSE, FALSE)
  ELSE IF hello = <<>> THEN Accepted("HelloError", FALSE, FALSE)
  ELSE IF CertificateCheck(hello[1].encryption, cert) # "Ok"
       THEN Accepted(CertificateCheck(hello[1].encryption, cert), FALSE, FALSE)
  ELSE IF cert # 0 /\ ~kx THEN Accepted("KeyExchangeError", FALSE, TRUE)
  ELSE Accepted("Ok", TRUE, cert # 0)

(* Listener::accept_tcp_connect.  up is the result of upgrade_server,      *)
(* hello the Option of the hello exchange (<<>>: it failed), kx whether    *)
(* the key exchange succeeds.                                              *)
accept_tcp_connect(up, hello, kx, cert, rts) ==
  IF up # "Ok" THEN Accepted(up, FALSE, FALSE)
  ELSE IF hello = <<>> THEN Accepted("HelloError", FALSE, FALSE)
  ELSE IF CertificateCheck(hello[1].encryption, cert) # "Ok"
       THEN Accepted(CertificateCheck(hello[1].encryption, cert), FALSE, FALSE)
  ELSE IF cert # 0 /\ ~kx THEN Accepted("KeyExchangeError", FALSE, TRUE)
  ELSE Accepted("Ok", hello[1].path \in rts, cert # 0)

(* a back-off that is capped before it is doubled *)
next_backoffLateCap(b) == IF b > MaxBackoff THEN MaxBackoff ELSE b * 2

(* exp_backoff *= 2, capped *)
next_backoff(b) == IF b * 2 > MaxBackoff THEN MaxBackoff ELSE b * 2

Conn(was_late, st, handed) == [late |-> was_late, st |-> st, handed |-> handed]

(* wire_encryption of a hello: 0 when it negotiated none or failed *)
Negotiated(hello) == IF hello = <<>> THEN 0 ELSE hello[1].encryption

(* what the last handshake did: its result, the encryption the hello       *)
(* negotiated, whether the key exchange ran and whether the TX channel was *)
(* given a key (StreamTxChannel::new(tx, ek) with ek = Some)               *)
Wire(st, encryption, exchanged, wrapped) ==
  [st |-> st, encryption |-> encryption, exchanged |-> exchanged, wrapped |-> wrapped]

(* Listener::new and the listen_on it calls *)
NewListener(wire_encryption, cert) ==
  /\ task = "none"
  /\ ~listener
  /\ conns = <<>>
  /\ server_cert = 0
  /\ CertificateCheck(wire_encryption, cert) = "Ok"
  /\ listener' = TRUE
  /\ server_cert' = cert
  /\ task' = "accept"
  /\ exp_backoff' = StartBackoff
  /\ errs' = 0
  /\ UNCHANGED <<sigs, seen, leaseVars, idxVars, logVars, treeVars, meshVars, inboxVars, histVars, wire,
                 routes, late, conns>>

(* Listener::add_route *)
AddRoute(path) ==
  /\ listener
  /\ path \notin routes
  /\ routes' = routes \cup {path}
  /\ UNCHANGED <<errs, sigs, seen, leaseVars, idxVars, logVars, treeVars, meshVars, inboxVars, histVars, wire,
                 listener, task, exp_backoff, server_cert, late, conns>>

(* The Listener is dropped by the one who held it. *)
DropListener ==
  /\ listener
  /\ listener' = FALSE
  /\ UNCHANGED <<errs, sigs, seen, leaseVars, idxVars, logVars, treeVars, meshVars, inboxVars, histVars, wire,
                 task, exp_backoff, server_cert, routes, late, conns>>

(* tcp_listener.accept() returns an error *)
AcceptErr ==
  /\ task = "accept"
  /\ task' = "sleep"
  /\ errs' = IF errs < MaxErrs THEN errs + 1 ELSE errs
  /\ UNCHANGED <<sigs, seen, leaseVars, idxVars, logVars, treeVars, meshVars, inboxVars, histVars, wire,
                 listener, exp_backoff, server_cert, routes, late, conns>>

(* the sleep ends; the back-off doubles up to its cap *)
Backoff ==
  /\ task = "sleep"
  /\ exp_backoff' = next_backoff(exp_backoff)
  /\ task' = "accept"
  /\ UNCHANGED <<errs, sigs, seen, leaseVars, idxVars, logVars, treeVars, meshVars, inboxVars, histVars, wire,
                 listener, server_cert, routes, late, conns>>

(* tcp_listener.accept() returns a stream *)
AcceptOk ==
  /\ task = "accept"
  /\ Len(conns) < MaxConns
  /\ exp_backoff' = StartBackoff
  /\ late' = ~listener
  /\ task' = "accepted"
  /\ errs' = 0
  /\ UNCHANGED <<sigs, seen, leaseVars, idxVars, logVars, treeVars, meshVars, inboxVars, histVars, wire,
                 listener, server_cert, routes, conns>>

(* an accept task that serves the connection without looking at the weak   *)
(* reference                                                               *)
UpgradeAlways ==
  /\ task = "accepted"
  /\ task' = "setup"
  /\ UNCHANGED <<errs, sigs, seen, leaseVars, idxVars, logVars, treeVars, meshVars, inboxVars, histVars, wire,
                 listener, exp_backoff, server_cert, routes, late, conns>>

(* Weak::upgrade(&listener): on a dropped Listener the loop breaks *)
Upgrade ==
  /\ task = "accepted"
  /\ IF listener
     THEN /\ task' = "setup"
          /\ conns' = conns
     ELSE /\ task' = "exited"
          /\ conns' = Append(conns, Conn(late, "NotServed", FALSE))
  /\ UNCHANGED <<errs, sigs, seen, leaseVars, idxVars, logVars, treeVars, meshVars, inboxVars, histVars, wire,
                 listener, exp_backoff, server_cert, routes, late>>

(* setup_tcp_stream(&stream).unwrap() *)
SetupStream(ok) ==
  /\ task = "setup"
  /\ IF ok
     THEN /\ task' = "handshake"
          /\ conns' = conns
     ELSE /\ task' = "panicked"
          /\ conns' = Append(conns, Conn(late, "SetupError", FALSE))
  /\ UNCHANGED <<errs, sigs, seen, leaseVars, idxVars, logVars, treeVars, meshVars, inboxVars, histVars, wire,
                 listener, exp_backoff, server_cert, routes, late>>

(* a loop that stops at a handshake that failed *)
HandshakeFatal(up, hello, kx) ==
  /\ task = "handshake"
  /\ LET r == accept_tcp_connect(up, hello, kx, server_cert, routes)
     IN /\ conns' = Append(conns, Conn(late, r.st, r.handed))
        /\ wire' = Wire(r.st, Negotiated(hello), r.exchanged, r.st = "Ok" /\ r.exchanged)
        /\ task' = IF r.st = "Ok" THEN "accept" ELSE "exited"
  /\ UNCHANGED <<errs, sigs, seen, leaseVars, idxVars, logVars, treeVars, meshVars, inboxVars, histVars,
                 listener, exp_backoff, server_cert, routes, late>>

(* accept_tcp_connect is awaited and its result matched: every arm goes on *)
(* with the loop                                                           *)
Handshake(up, hello, kx) ==
  /\ task = "handshake"
  /\ LET r == accept_tcp_connect(up, hello, kx, server_cert, routes)
     IN /\ conns' = Append(conns, Conn(late, r.st, r.handed))
        /\ wire' = Wire(r.st, Negotiated(hello), r.exchanged, r.st = "Ok" /\ r.exchanged)
  /\ task' = "accept"
  /\ UNCHANGED <<errs, sigs, seen, leaseVars, idxVars, logVars, treeVars, meshVars, inboxVars, histVars,
                 listener, exp_backoff, server_cert, routes, late>>

NextListen ==
  \/ \E wire_encryption \in KeySizes, cert \in KeySizes : NewListener(wire_encryption, cert)
  \/ \E path \in Paths : AddRoute(path)
  \/ DropListener
  \/ AcceptErr
  \/ Backoff
  \/ AcceptOk
  \/ Upgrade
  \/ \E ok \in BOOLEAN : SetupStream(ok)
  \/ \E up \in Upgrades, hello \in Hellos, kx \in BOOLEAN : Handshake(up, hello, kx)

(* The executor runs the accept task whenever it can go on by itself: it   *)
(* looks at the weak reference once a stream is in hand, sets the stream   *)
(* up and wakes up from its sleep.  That a peer connects or answers is not *)
(* in its hands.                                                           *)
SpecListen ==
  /\ Init
  /\ [][NextListen]_vars
  /\ WF_vars(Upgrade)
  /\ WF_vars(Backoff)
  /\ WF_vars(\E ok \in BOOLEAN : SetupStream(ok))

(***************************************************************************)
(* The exclusive lease on a chain.  ChainSingleUser::new takes the write   *)
(* guard of inside_async and keeps it for as long as the ChainSingleUser   *)
(* lives; the session takes the same lock directly, for writing when it    *)
(* records a delayed upload and for reading when it scans the timeline.    *)
(* The integrity mode lives behind the other lock of the chain,            *)
(* inside_sync, which set_integrity and the StartOfHistory handler both    *)
(* take for the time of the assignment only.                               *)
(***************************************************************************)
Tasks == 1..NumTasks

Free(g) == g.single = 0 /\ g.writer = 0 /\ g.readers = {}

Single(t) ==
  /\ Free(inside_async)
  /\ inside_async' = [inside_async EXCEPT !.single = t]
  /\ UNCHANGED <<errs, sigs, seen, idxVars, logVars, treeVars, netVars, disable_new_roots, destroyed>>

DropSingle(t) ==
  /\ inside_async.single = t
  /\ inside_async' = [inside_async EXCEPT !.single = 0]
  /\ UNCHANGED <<errs, sigs, seen, idxVars, logVars, treeVars, netVars, disable_new_roots, destroyed>>

destroy(t) ==
  /\ inside_async.single = t
  /\ destroyed' = TRUE
  /\ UNCHANGED <<errs, sigs, seen, idxVars, logVars, treeVars, netVars, inside_async, disable_new_roots>>

DisableNewRoots(t) ==
  /\ inside_async.single = t
  /\ disable_new_roots' = TRUE
  /\ UNCHANGED <<errs, sigs, seen, idxVars, logVars, treeVars, netVars, inside_async, destroyed>>

set_integrity(t, mode) ==
  /\ inside_async.single = t
  /\ plugin' = set_integrity_mode(plugin, mode)
  /\ UNCHANGED <<errs, sigs, seen, idxVars, logVars, netVars, leaseVars, buried, out, conv>>

AsyncWrite(t) ==
  /\ Free(inside_async)
  /\ inside_async' = [inside_async EXCEPT !.writer = t]
  /\ UNCHANGED <<errs, sigs, seen, idxVars, logVars, treeVars, netVars, disable_new_roots, destroyed>>

AsyncWriteDrop(t) ==
  /\ inside_async.writer = t
  /\ inside_async' = [inside_async EXCEPT !.writer = 0]
  /\ UNCHANGED <<errs, sigs, seen, idxVars, logVars, treeVars, netVars, disable_new_roots, destroyed>>

AsyncRead(t) ==
  /\ inside_async.single = 0
  /\ inside_async.writer = 0
  /\ t \notin inside_async.readers
  /\ inside_async' = [inside_async EXCEPT !.readers = @ \cup {t}]
  /\ UNCHANGED <<errs, sigs, seen, idxVars, logVars, treeVars, netVars, disable_new_roots, destroyed>>

AsyncReadDrop(t) ==
  /\ t \in inside_async.readers
  /\ inside_async' = [inside_async EXCEPT !.readers = @ \ {t}]
  /\ UNCHANGED <<errs, sigs, seen, idxVars, logVars, treeVars, netVars, disable_new_roots, destroyed>>

NextLease ==
  \/ \E t \in Tasks : Single(t)
  \/ \E t \in Tasks : DropSingle(t)
  \/ \E t \in Tasks : destroy(t)
  \/ \E t \in Tasks : DisableNewRoots(t)
  \/ \E t \in Tasks, mode \in {"Centralized", "Distributed"} : set_integrity(t, mode)
  \/ \E t \in Tasks : AsyncWrite(t)
  \/ \E t \in Tasks : AsyncWriteDrop(t)
  \/ \E t \in Tasks : AsyncRead(t)
  \/ \E t \in Tasks : AsyncReadDrop(t)
  \/ \E size \in 1..NumSizes, root_keys \in {{}, {1}}, integrity \in {"Centralized", "Distributed"} :
       InboxStartOfHistory(size, <<>>, root_keys, integrity)

SpecLease == Init /\ [][NextLease]_vars

(***************************************************************************)
(* Rebuilding the plugin from the headers of a log.  A header here is its  *)
(* metadata, its event hash and the hash of the key whose signature it     *)
(* carries (0: none).  The SignaturePlugin remembers the signatures fed to *)
(* it; its reset forgets them and its rebuild is a reset followed by a     *)
(* feed of every header.                                                   *)
(***************************************************************************)
SigHeader(meta, hash, signed) == [meta |-> meta, hash |-> hash, signed |-> signed]

signature_feed(sg, header) ==
  IF header.signed # 0 THEN sg \cup {<<header.hash, header.signed>>} ELSE sg

RECURSIVE signature_rebuild(_, _, _)
signature_rebuild(sg, headers, i) ==
  IF i > Len(headers) THEN sg
  ELSE signature_rebuild(signature_feed(IF i = 1 THEN {} ELSE sg, headers[i]), headers, i + 1)

(* EventSink::feed of the plugin, on the pair of the plugin and its        *)
(* SignaturePlugin                                                         *)
feed(ps, header) == <<PluginFeed(ps[1], header.meta), signature_feed(ps[2], header)>>

(* a reset that keeps the parents *)
resetKeepParents(ps) == <<[ps[1] EXCEPT !.auth = EmptyMap], {}>>

reset(ps) == <<[ps[1] EXCEPT !.auth = EmptyMap, !.parents = EmptyMap], {}>>

RECURSIVE FeedFrom(_, _, _)
FeedFrom(ps, headers, i) ==
  IF i > Len(headers) THEN ps ELSE FeedFrom(feed(ps, headers[i]), headers, i + 1)

rebuild(ps, headers) ==
  LET r == reset(ps)
      sg == IF headers = <<>> THEN r[2] ELSE signature_rebuild(r[2], headers, 1)
  IN FeedFrom(<<r[1], sg>>, headers, 1)

RebuildMetas ==
  {Metadata(k, 0, a, q, <<>>, 0, TRUE) :
     k \in Keys,
     a \in {<<>>, <<MetaAuthorization(ReadEveryone(0), WriteSpecific(1))>>},
     q \in {0, 1}}
    \cup TombstoneMetas

RebuildHeaders ==
  {SigHeader(m, h[1], h[2]) : m \in RebuildMetas, h \in {<<1, 0>>, <<1, 1>>, <<2, 1>>}}

FeedSigned(header) ==
  /\ out = NoOut
  /\ plugin' = feed(<<plugin, sigs>>, header)[1]
  /\ sigs' = feed(<<plugin, sigs>>, header)[2]
  /\ UNCHANGED <<errs, seen, leaseVars, netVars, idxVars, logVars, buried, out, conv>>

(* out: the headers the plugin was rebuilt from *)
Rebuild(headers) ==
  /\ out = NoOut
  /\ plugin' = rebuild(<<plugin, sigs>>, headers)[1]
  /\ sigs' = rebuild(<<plugin, sigs>>, headers)[2]
  /\ out' = [op |-> "rebuild", headers |-> headers]
  /\ UNCHANGED <<errs, seen, leaseVars, netVars, idxVars, logVars, buried, conv>>

NextRebuild ==
  \/ \E header \in RebuildHeaders : FeedSigned(header)
  \/ \E headers \in {<<>>} \cup SeqsUpTo(RebuildHeaders, MaxRebuild) : Rebuild(headers)
  \/ \E hs \in SUBSET SignHashes : SetRootKeys(hs)
  \/ \E mode \in {"Centralized", "Distributed"} : SetIntegrityMode(mode)
  \/ Return

SpecRebuild == Init /\ [][NextRebuild]_vars

(***************************************************************************)
(* The answers of the compactors during one compaction of a log.           *)
(***************************************************************************)
(* the relevance each compactor returns for frames[i] down to frames[1] *)
RECURSIVE RelevanceWalk(_, _, _, _)
RelevanceWalk(frames, i, cs, rels) ==
  IF i = 0 THEN rels
  ELSE LET meta == frames[i].meta
           rd == RemoveDuplicatesRelevance(cs.already, meta)
           tb == TombstoneRelevance(cs.tombstoned, meta)
           tr == TreeRelevance(cs.parent_needed, meta)
           next == [already |-> rd.state, tombstoned |-> tb.state,
                    parent_needed |-> tr.state]
       IN RelevanceWalk(frames, i - 1, next,
                        [rels EXCEPT ![i] = [duplicates |-> rd.rel,
                                             tombstone |-> tb.rel,
                                             tree |-> tr.rel]])

Relevances(frames) ==
  RelevanceWalk(frames, Len(frames),
                Compactors(TreeCompactorFeedAll({}, frames, 1)),
                [i \in 1..Len(frames) |->
                   [duplicates |-> "Abstain", tombstone |-> "Abstain", tree |-> "Abstain"]])

(* The metadata of the events in the logs compacted here: rows with and    *)
(* without a parent, tombstones, tombstones that also carry a data key,    *)
(* and events with no key at all.                                          *)
CompactMetas ==
  {<<Data(k)>> : k \in Keys}
    \cup {<<Data(k), Tree(v)>> : k \in Keys, v \in Colls}
    \cup {<<Tombstone(k)>> : k \in Keys}
    \cup {<<Tombstone(k), Data(3 - k)>> : k \in Keys}
    \cup {<<Data(1), Tombstone(1)>>, <<Timestamp(1)>>}

CompactAppend(meta) ==
  /\ out = NoOut
  /\ Len(file) < MaxWalk
  /\ file' = Append(file, EventData(meta, IF get_data_key(meta) # 0 THEN 1 ELSE 0))
  /\ UNCHANGED <<errs, sigs, seen, leaseVars, netVars, idxVars, stream, open, loaded, segment,
                 synced, treeVars>>

(* out: the log that was compacted and what each compactor answered *)
Compact ==
  /\ out = NoOut
  /\ file # <<>>
  /\ file' = CompactLog(file)
  /\ out' = [op |-> "compact", frames |-> file, rels |-> Relevances(file)]
  /\ UNCHANGED <<errs, sigs, seen, leaseVars, netVars, idxVars, stream, open, loaded, segment,
                 synced, plugin, buried, conv>>

NextCompact ==
  \/ \E meta \in CompactMetas : CompactAppend(meta)
  \/ Compact
  \/ Return

SpecCompact == Init /\ [][NextCompact]_vars

(***************************************************************************)
(* Claims about the indexer.                                               *)
(***************************************************************************)
Gone(ix, k) ==
  /\ lookup_primary(ix, k) = <<>>
  /\ k \notin DOMAIN ix.parent
  /\ \A v \in DOMAIN ix.secondary : ~Contains(ix.secondary[v], k)

(* C1 as stated: after feeding an event whose metadata contains            *)
(* Tombstone(k), whichever Tombstone tag of the event it is, k has no      *)
(* primary entry, no parent and is in no secondary vector.                 *)
C1_AnyTombstoneGone == \A k \in last.tombs : Gone(index, k)

(* C1 amended: after feeding an event whose first Tombstone tag is         *)
(* Tombstone(k), k has no primary entry, no recorded parent and is in no   *)
(* secondary vector, whatever was fed before; and after feeding an event   *)
(* with a data hash, a Data(k) tag and no Tombstone tag, primary[k] exists.*)
C1_FirstTombstoneGone ==
  /\ last.tomb # 0 => Gone(index, last.tomb)
  /\ last.tomb = 0 => \A k \in last.data : lookup_primary(index, k) # <<>>

C1_Witness == last.tomb # 0 /\ last.had

(* C2: feeding an event that tombstones k right after an event that        *)
(* tombstoned k leaves the primary, secondary and parent maps unchanged.   *)
C2_TombstoneIdempotent == [][last'.again => index' = index]_vars

C2_Witness == last.again /\ index.primary # EmptyMap /\ index.secondary # EmptyMap

(***************************************************************************)
(* Claims about replay.                                                    *)
(***************************************************************************)
DistinctStores(frames) ==
  /\ \A i \in 1..Len(frames) : frames[i] \in StoreEvents
  /\ \A i, j \in 1..Len(frames) :
       i # j => get_data_key(frames[i].meta) # get_data_key(frames[j].meta)

(* C3: when a closed chain is reopened, the index loaded from the log file *)
(* equals the index the events built when they were fed live, secondary    *)
(* vector order included; a log of N stored rows with distinct keys and no *)
(* tombstones loads with count() = N.                                      *)
C3_ReplayDeterminism ==
  [][(~open /\ open') =>
       /\ index' = index
       /\ DistinctStores(file') => count(index') = Len(file')]_vars

C3_Witness ==
  /\ open
  /\ loaded
  /\ stream = <<>>
  /\ Len(file) = MaxLog
  /\ index = LoadIndex(file)
  /\ count(index) = NumKeys
  /\ \E v \in DOMAIN index.secondary : Len(index.secondary[v]) = 2

(***************************************************************************)
(* Claims about authorization resolution.                                  *)
(***************************************************************************)
(* C4: when the parent pointers of the plugin and trans_meta are acyclic,  *)
(* compute_auth terminates; the pair it returns has neither side Inherit;  *)
(* a record with no authorization of its own and no parent gets            *)
(* Everyone(None) for read and the root's option for write.                *)
C4_InheritanceTerminates ==
  (out.op = "compute_auth" /\ out.acyclic) =>
    /\ out.res.st # "Diverges"
    /\ out.res.st = "Ok" =>
         /\ out.res.read.t # "Inherit"
         /\ out.res.write.t # "Inherit"
         /\ (out.key # 0 /\ out.names = 0 /\ out.own.read = ReadInherit)
              => out.res.read = ReadEveryone(0)
         /\ (out.key # 0 /\ out.names = 0 /\ out.own.write = WriteInherit)
              => out.res.write = plugin.root

C4_Witness ==
  /\ out.op = "compute_auth"
  /\ out.acyclic
  /\ out.res.st = "Ok"
  /\ out.key # 0
  /\ out.names # 0
  /\ out.own = MetaAuthorization(ReadInherit, WriteInherit)
  /\ plugin.parents # EmptyMap
  /\ out.res.read = ReadEveryone(0)
  /\ out.res.write = plugin.root
  /\ plugin.root = WriteAny(SignHashes)

(* C5: when the authorization a record starts from has an Inherit side and *)
(* the parent its metadata names has no authorization in trans_meta or in  *)
(* the plugin, compute_auth fails with MissingParent(parent).              *)
C5_MissingParent ==
  (out.op = "compute_auth" /\ out.key # 0 /\ HasInherit(out.own) /\ out.orphan) =>
    /\ out.res.st = "MissingParent"
    /\ out.res.parent = out.names

(* the parent had a Specific read option and a tombstone removed it, while *)
(* the child that inherits from it is still in the plugin                  *)
C5_Witness ==
  /\ out.op = "compute_auth"
  /\ HasInherit(out.own)
  /\ out.orphan
  /\ out.names \in buried
  /\ out.key \in DOMAIN plugin.parents
  /\ plugin.parents[out.key] = out.names
  /\ out.res.st = "MissingParent"

(***************************************************************************)
(* Claims about validation.                                                *)
(***************************************************************************)
Validated == out.op = "validate"

Resolved == out.auth.st = "Ok"

(* the centralized short-circuit, for the conversation the call was given *)
ShortCircuit ==
  /\ plugin.integrity = "Centralized"
  /\ out.conv
  /\ \/ conv.other_end_is_server
     \/ vals(out.auth.write) \cap conv.signatures # {}

(* C6: validate accepts an event that requires a signature and has no      *)
(* verified signature by a key of the resolved write set only when the     *)
(* resolved write option is Everyone or the centralized short-circuit      *)
(* applies; otherwise it rejects it with NoSignatures or Detached; an      *)
(* event that requires a signature and whose authorization does not        *)
(* resolve is not accepted.                                                *)
C6_ValidationSoundness ==
  (Validated /\ out.requires) =>
    /\ ~Resolved => out.res # "Allow"
    /\ (Resolved /\ vals(out.auth.write) \cap out.verified = {}) =>
         /\ out.res = "Allow" => (out.auth.write = WriteEveryone \/ ShortCircuit)
         /\ ~(out.auth.write = WriteEveryone \/ ShortCircuit)
              => out.res \in {"NoSignatures", "Detached"}

C6_Witness ==
  /\ Validated
  /\ out.requires
  /\ Resolved
  /\ out.auth.write.t = "Specific"
  /\ out.verified # {}
  /\ vals(out.auth.write) \cap out.verified = {}
  /\ plugin.integrity = "Centralized"
  /\ out.conv
  /\ out.res = "Detached"

(* C7: in Centralized mode an event that requires a signature, whose       *)
(* authorization resolves and for which there is no verified signature is  *)
(* accepted when validate is given a conversation whose other end is the   *)
(* server or whose signatures hold a key hash of the resolved write set.   *)
C7_CentralizedShortCircuit ==
  (Validated /\ out.requires /\ Resolved /\ out.verified = {} /\ ShortCircuit)
    => out.res = "Allow"

(* a later event by a key the conversation saw, with no signature of its   *)
(* own, on a conversation whose other end is not the server                *)
C7_Witness ==
  /\ Validated
  /\ out.requires
  /\ Resolved
  /\ out.verified = {}
  /\ out.signed = 0
  /\ plugin.integrity = "Centralized"
  /\ out.conv
  /\ ~conv.other_end_is_server
  /\ out.auth.write = WriteSpecific(1)
  /\ 1 \in conv.signatures
  /\ out.res = "Allow"

(* C8: in Distributed mode an event that requires a signature, whose       *)
(* resolved write option is not Everyone and for which there is no         *)
(* verified signature is rejected with NoSignatures, whatever conversation *)
(* validate is given.                                                      *)
C8_DistributedIntegrity ==
  (/\ Validated
   /\ out.requires
   /\ Resolved
   /\ out.auth.write # WriteEveryone
   /\ out.verified = {}
   /\ plugin.integrity = "Distributed")
    => out.res = "NoSignatures"

(* the conversation's other end is the server and it has presented a key   *)
(* of the write set                                                        *)
C8_Witness ==
  /\ Validated
  /\ out.requires
  /\ Resolved
  /\ out.verified = {}
  /\ plugin.integrity = "Distributed"
  /\ out.conv
  /\ conv.other_end_is_server
  /\ vals(out.auth.write) \cap conv.signatures # {}
  /\ out.res = "NoSignatures"

(***************************************************************************)
(* Claims about confidentiality.                                           *)
(***************************************************************************)
(* C9: every event that leaves the write path (metadata_lint_event, then   *)
(* data_as_underlay) with a Confidentiality tag has an                     *)
(* InitializationVector tag in the same metadata, for every resolved read  *)
(* option.                                                                 *)
C9_ConfidentialityHasIv ==
  (out.op = "underlay" /\ out.st = "Ok" /\ out.meta.conf # <<>>) => out.meta.iv # 0

ConfidentialityNoIv == out.op = "overlay" /\ out.conf # <<>> /\ out.iv = 0

C11_RoundTripSecrecy ==
  (/\ out.op = "read_written"
   /\ out.writer_held
   /\ out.read = AuthResult("Ok", 0, out.wrote, out.read.write)) =>
    /\ out.same => (out.st = "Ok" /\ out.data = out.payload)
    /\ ~out.holds => out.st = "MissingReadKey"

(* the read option is inherited and resolved again from the plugin *)
C11_Witness ==
  /\ out.op = "read_written"
  /\ out.writer_held
  /\ ~out.cached
  /\ out.read.st = "Ok"
  /\ out.read.read = out.wrote
  /\ plugin.parents # EmptyMap
  /\ out.same
  /\ out.st = "Ok"
  /\ out.data = out.payload
  /\ out.data.body # 0

C11_WitnessOther ==
  /\ out.op = "read_written"
  /\ out.writer_held
  /\ ~out.holds
  /\ out.st = "MissingReadKey"

(***************************************************************************)
(* Claims about compaction.                                                *)
(***************************************************************************)
Compacted == segment' # segment

(* the keys with a tombstone in the log *)
TombstonedIn(frames) ==
  {get_tombstone(frames[i].meta) : i \in 1..Len(frames)} \ {0}

(* C12 as stated: after a compaction every key that was live has the same  *)
(* EventLeaf as before, and no other key has an entry.                     *)
C12_SameLeaf ==
  [][Compacted => \A k \in Keys : lookup_primary(index', k) = lookup_primary(index, k)]_vars

(* C12 amended: after a compaction the same keys are live, each with the   *)
(* record and the updated time it had before; its created time is the time *)
(* of the one event of the key that was kept; a key whose newest event in  *)
(* the log is a tombstone has no entry and no frame.                       *)
C12_LastWriterPreserved ==
  [][Compacted =>
       /\ DOMAIN index'.primary = DOMAIN index.primary
       /\ \A k \in DOMAIN index.primary :
            /\ index'.primary[k].record = index.primary[k].record
            /\ index'.primary[k].updated = index.primary[k].updated
            /\ index'.primary[k].created = index.primary[k].updated
       /\ \A k \in TombstonedIn(file \o stream) \ DOMAIN index.primary :
            /\ lookup_primary(index', k) = <<>>
            /\ \A i \in 1..Len(file') : get_data_key(file'[i].meta) # k]_vars

(* a compacted log that holds one frame, written at the latest time *)
C12_Witness ==
  /\ segment > 1
  /\ stream = <<>>
  /\ index = LoadIndex(file)
  /\ Len(file) = 1
  /\ count(index) = 1
  /\ \E k \in DOMAIN index.primary : index.primary[k].created = MaxTime

(***************************************************************************)
(* Claims about the mesh session.                                          *)
(***************************************************************************)
(* what a packet for id does to the commit table and the reply channels *)
Completes(id, r) ==
  IF id \in commit
  THEN /\ commit' = commit \ {id}
       /\ replies'[id] = Append(replies[id], r)
       /\ \A o \in CommitIds \ {id} : replies'[o] = replies[o]
  ELSE /\ commit' = commit
       /\ replies' = replies

(* C13: whatever the order in which Confirmed(id) and CommitError{id, err} *)
(* arrive, a packet completes exactly the outstanding transaction          *)
(* registered under its id, with Ok(id) or RootError(err), removes it from *)
(* the commit table and leaves every other outstanding commit pending and  *)
(* its reply channel untouched.                                            *)
C13_CommitReconciliation ==
  [][\A id \in CommitIds :
       /\ (alive /\ InboxConfirmed(id)) => Completes(id, CommitOk(id))
       /\ \A err \in Errs :
            (alive /\ InboxCommitError(id, err)) => Completes(id, RootError(err))]_vars

(* the commits were completed out of order and one is still pending *)
C13_Witness ==
  /\ alive
  /\ pc = "run"
  /\ 1 \in commit
  /\ replies[1] = <<>>
  /\ replies[2] = <<RootError(1)>>
  /\ replies[3] = <<CommitOk(3)>>

(* C14: when the inbound connection shuts down while the session is alive, *)
(* every commit outstanding at that moment is sent Aborted, every pending  *)
(* lock request is cancelled and the sniffers are cleared, so that the     *)
(* commit table and lock_requests are empty, and Disconnected is sent only *)
(* after these cancellations.                                              *)
C14_DisconnectCancels ==
  [][/\ (pc = "cancel_commits" /\ pc' # pc) =>
          (senders' = commit /\ commit' = {})
     /\ (pc = "send" /\ senders' # senders) =>
          \E id \in senders :
            /\ senders' = senders \ {id}
            /\ replies' = Send(replies, id, Aborted)
     /\ (pc = "send" /\ pc' # pc) => senders = {}
     /\ (pc = "cancel_locks" /\ pc' # pc) =>
          /\ lock_requests' = {}
          /\ sniffers = 0
          /\ \A key \in lock_requests :
               lock_replies'[key] = Append(lock_replies[key], "cancelled")
     /\ (status_tx' # status_tx /\ alive) =>
          /\ status_tx' = Append(status_tx, "Disconnected")
          /\ commit = {}
          /\ senders = {}
          /\ lock_requests = {}
          /\ sniffers = 0]_vars

(* Disconnected was sent after two commits were aborted and a lock request *)
(* was cancelled                                                           *)
C14_Witness ==
  /\ alive
  /\ status_tx = <<"Disconnected">>
  /\ replies[1] = <<Aborted>>
  /\ replies[2] = <<Aborted>>
  /\ replies[3] = <<CommitOk(3)>>
  /\ lock_replies[1] = <<"cancelled">>

(* C15: when the session is dropped, each of its pending commits is        *)
(* completed with Aborted and each of its pending lock requests is         *)
(* cancelled.                                                              *)
C15_DropResolves ==
  [][(alive /\ ~alive') =>
       /\ \A id \in commit : replies'[id] = Append(replies[id], Aborted)
       /\ \A key \in lock_requests :
            lock_replies'[key] = Append(lock_replies[key], "cancelled")]_vars

(* the events of a packet the processor feeds: while a loader awaits the   *)
(* initial sync those it reports as already known are left out             *)
Kept(evts) ==
  SelectSeq(evts, LAMBDA e : loader = <<>> \/ ~relevance_check(loader[1], e))

(* C16: every Events packet received from the server is fed to the local   *)
(* chain as one transaction with scope Local and transmit = false, tagged  *)
(* with the inbound conversation, its events in the order of the packet;   *)
(* no event received from the server is ever transmitted upstream.         *)
C16_NoEcho ==
  /\ [](\A i \in 1..Len(upstream) : upstream[i] \notin NetEvents)
  /\ [][\A evts \in Packets :
          (alive /\ chain /\ InboxEvents(evts)) =>
            /\ pipe' = Append(pipe, Transaction("Local", FALSE, Kept(evts), "inbound"))
            /\ upstream' = upstream]_vars

(* a packet was fed in its own order next to a local commit that was       *)
(* transmitted                                                             *)
C16_Witness ==
  /\ upstream = <<LocalEvent>>
  /\ \E i \in 1..Len(pipe) : pipe[i] = Transaction("Local", FALSE, <<2, 1>>, "inbound")

Terminal(note) == note.n \in {"end_of_history", "failed"}

(* C17: a loader awaiting the initial sync receives exactly one terminal   *)
(* notification, end_of_history on the first EndOfHistory or failed on a   *)
(* FatalTerminate, whichever arrives first; afterwards no EndOfHistory,    *)
(* FatalTerminate or Events packet reaches that loader, and the Events     *)
(* that arrive are fed unfiltered.                                         *)
C17_LoaderRelease ==
  /\ [](/\ Cardinality({i \in 1..Len(loader_log) : Terminal(loader_log[i])}) <= 1
        /\ loader = <<>> <=> (loader_log # <<>> /\ Terminal(loader_log[Len(loader_log)])))
  /\ [][/\ (alive /\ loader # <<>> /\ InboxEndOfHistory) =>
             (loader' = <<>> /\ loader_log' = Append(loader_log, Note("end_of_history", <<>>)))
        /\ \A fatal \in Errs :
             (alive /\ loader # <<>> /\ InboxFatalTerminate(fatal)) =>
               (loader' = <<>> /\ loader_log' = Append(loader_log, Note("failed", <<fatal>>)))
        /\ loader = <<>> => (loader' = <<>> /\ loader_log' = loader_log)
        /\ \A evts \in Packets :
             (alive /\ chain /\ loader = <<>> /\ InboxEvents(evts)) =>
               pipe' = Append(pipe, Transaction("Local", FALSE, evts, "inbound"))]_vars

(* the loader was fed a packet, then released by a FatalTerminate, and the *)
(* same packet arrived again                                               *)
C17_Witness ==
  /\ loader = <<>>
  /\ loader_log = <<Note("feed_events", <<1>>), Note("failed", <<1>>)>>
  /\ pipe = <<Transaction("Local", FALSE, <<>>, "inbound"),
              Transaction("Local", FALSE, <<1>>, "inbound")>>

(* the local events later than t *)
Later(to) == IF to = <<>> THEN {} ELSE {k \in timeline : k > to[1]}

(* C18: on StartOfHistory{to = Some(t)} a DelayedUpload{complete: false,   *)
(* from, to} marker is recorded if and only if the local chain holds       *)
(* events later than t, and it covers exactly the local events after t up  *)
(* to the local tip; when to is None or no local event is later than t no  *)
(* marker is recorded.                                                     *)
C18_DelayedUpload ==
  [][\A size \in 1..NumSizes, to \in {<<>>} \cup {<<t>> : t \in Stamps},
        root_keys \in {{}, {1}}, integrity \in {"Centralized", "Distributed"} :
       (alive /\ chain /\ InboxStartOfHistory(size, to, root_keys, integrity)) =>
         IF Later(to) = {}
         THEN pointers' = pointers
         ELSE pointers' = pointers \cup
                {MetaDelayedUpload(FALSE, MinOf(Later(to)), MaxOf(timeline))}]_vars

(***************************************************************************)
(* Claims about the mesh listener.                                         *)
(***************************************************************************)
(* no connection accepted after the drop was handshaken or handed on *)
LateNotServed ==
  \A i \in 1..Len(conns) :
    conns[i].late => (conns[i].st = "NotServed" /\ ~conns[i].handed)

(* C19 as stated: once the Listener has been dropped the accept loop       *)
(* exits, and no connection accepted after the drop is handshaken or       *)
(* handed to the processor.                                                *)
C19_DropExits ==
  /\ (task # "none" /\ ~listener) ~> (task \in {"exited", "panicked"})
  /\ []LateNotServed

(* C19, amended: once the Listener has been dropped the accept loop exits  *)
(* when it next accepts a connection, and stays exited; no connection      *)
(* accepted after the drop is handshaken or handed to the processor.       *)
C19_DropExitsAtNextAccept ==
  /\ []LateNotServed
  /\ [][/\ (task = "accepted" /\ ~listener /\ task' # task) => task' = "exited"
        /\ (task = "accept" /\ ~listener) => task' \in {"accept", "sleep", "accepted"}
        /\ (task = "sleep" /\ ~listener) => task' \in {"sleep", "accept"}
        /\ task = "exited" => (task' = "exited" /\ conns' = conns)]_vars

(* a connection was served, the Listener was dropped and the next          *)
(* connection ended the loop                                               *)
C19_Witness ==
  /\ task = "exited"
  /\ Len(conns) = 2
  /\ conns[1] = Conn(FALSE, "Ok", TRUE)
  /\ conns[2] = Conn(TRUE, "NotServed", FALSE)

(* C20: a failure while accepting or handshaking one connection (an accept *)
(* error, an upgrade timeout, MissingCertificate, CertificateTooWeak, EOF  *)
(* or reset, or any other error of accept_tcp_connect) ends that           *)
(* connection only: the accept loop goes on, and it exits only once the    *)
(* Listener has been dropped.                                              *)
C20_FailureNotFatal ==
  [][/\ task = "accept" => task' \in {"accept", "sleep", "accepted"}
     /\ task = "sleep" => task' \in {"sleep", "accept"}
     /\ task = "handshake" => task' \in {"handshake", "accept"}
     /\ (task' = "exited" /\ task # "exited") => (~listener /\ task = "accepted")]_vars

(* after a back-off and a handshake that failed, a connection was served   *)
C20_Witness ==
  /\ listener
  /\ task = "sleep"
  /\ exp_backoff > StartBackoff
  /\ Len(conns) = 2
  /\ conns[1] = Conn(FALSE, "CertificateTooWeak", FALSE)
  /\ conns[2] = Conn(FALSE, "Ok", TRUE)

(* C21: the server runs the key exchange and gives the TX channel a        *)
(* symmetric key if and only if the hello of that connection negotiated    *)
(* wire encryption; a connection whose hello negotiated none performs no   *)
(* key exchange and is left plain.                                         *)
C21_ExchangeIffNegotiated ==
  /\ wire.st = "Ok" => ((wire.exchanged /\ wire.wrapped) <=> wire.encryption # 0)
  /\ wire.encryption = 0 => (~wire.exchanged /\ ~wire.wrapped)

(***************************************************************************)
(* Claims about the durability of the redo log.                            *)
(***************************************************************************)
(* C22: appended records are durable only after sync: sync flushes every   *)
(* buffered write to the file and then fsyncs, so that once it has         *)
(* returned Ok no record appended before is left in the write buffer or    *)
(* un-synced; flush moves the buffered writes to the file without an       *)
(* fsync, and nothing but a sync makes a record durable.                   *)
C22_SyncDurability ==
  /\ [](synced <= Len(file))
  /\ [][/\ LogSync(TRUE) =>
             /\ file' = file \o stream
             /\ stream' = <<>>
             /\ synced' = Len(file')
        /\ LogFlush =>
             /\ file' = file \o stream
             /\ stream' = <<>>
             /\ synced' = synced
        /\ (\E evt \in LogEvents : LogWrite(evt)) =>
             /\ Len(stream') = Len(stream) + 1
             /\ file' = file
             /\ synced' = synced
        /\ synced' > synced => (synced' = Len(file) + Len(stream) /\ stream' = <<>>)]_vars

(* one record is synced, one only flushed and one still in the buffer *)
C22_Witness ==
  /\ open
  /\ synced = 1
  /\ Len(file) = 2
  /\ Len(stream) = 1

(* C23 as stated: while a ChainSingleUser is alive no other task holds the *)
(* guard of inside_async, as a second lease, a writer or a reader, and the *)
(* integrity mode of the chain changes only in a step taken while a lease  *)
(* is held.                                                                *)
C23_ExclusiveLease ==
  /\ [](inside_async.single # 0 => (inside_async.writer = 0 /\ inside_async.readers = {}))
  /\ [][plugin.integrity' # plugin.integrity => inside_async.single # 0]_vars

(***************************************************************************)
(* Claims about the indexer's maps.                                        *)
(***************************************************************************)
SameEntry(f, g, j) == (j \in DOMAIN f <=> j \in DOMAIN g) /\ (j \in DOMAIN f => f[j] = g[j])

OthersKept(ix, jx, k) ==
  \A v \in DOMAIN ix.secondary :
    ~Contains(ix.secondary[v], k) => SameEntry(ix.secondary, jx.secondary, v)

C25_EveryDataEventUpserts ==
  [][\A k \in last'.data \ last'.tombs :
       /\ k \in DOMAIN index'.primary
       /\ k \in DOMAIN index.primary => index'.primary[k].created = index.primary[k].created]_vars

(* C25 amended: primary holds exactly the keys written since they were     *)
(* last removed; created is the timestamp of the first event that wrote    *)
(* the key, record and updated are the hash and the timestamp of the       *)
(* latest one (0 stands for an event without a timestamp).  An event with  *)
(* a Data(k) tag and no data hash leaves primary as it was.                *)
C25_PrimaryUpsert ==
  /\ [](/\ DOMAIN index.primary = DOMAIN seen
        /\ \A k \in DOMAIN seen :
             index.primary[k] = EventLeaf(seen[k].hash, seen[k].first, seen[k].when))
  /\ [][(last'.tomb = 0 /\ last'.data = {}) => index'.primary = index.primary]_vars

C25_Witness ==
  \E k \in DOMAIN seen :
    /\ k \in last.data
    /\ seen[k].first # seen[k].when
    /\ index.primary[k].created = seen[k].first
    /\ index.primary[k].updated = seen[k].when

Occurrences(vec, k) == Cardinality({i \in 1..Len(vec) : vec[i] = k})

(* C26: at every state each key occurs at most once in each secondary      *)
(* vector, and k is in the vector of collection c exactly when parent[k]   *)
(* is c; a step that changes parent[k] from one collection to another      *)
(* takes k out of the vector of the first and puts it, once, into the      *)
(* vector of the second.                                                   *)
C26_SecondaryMatchesParent ==
  /\ [](\A c \in Colls, k \in Keys :
          LET vec == IF c \in DOMAIN index.secondary THEN index.secondary[c] ELSE <<>> IN
          /\ Occurrences(vec, k) <= 1
          /\ Contains(vec, k) <=> (k \in DOMAIN index.parent /\ index.parent[k] = c))
  /\ [][\A k \in DOMAIN index.parent \cap DOMAIN index'.parent :
          index'.parent[k] # index.parent[k] =>
            /\ last'.tomb = 0
            /\ ~Contains(index'.secondary[index.parent[k]], k)
            /\ Occurrences(index'.secondary[index'.parent[k]], k) = 1]_vars

C26_Witness ==
  /\ last.tomb = 0
  /\ \E c \in Colls, d \in Colls :
       /\ c # d
       /\ c \in DOMAIN index.secondary /\ index.secondary[c] = <<>>
       /\ d \in DOMAIN index.secondary /\ Len(index.secondary[d]) = NumKeys
       /\ \A k \in Keys : k \in DOMAIN index.parent /\ index.parent[k] = d

(***************************************************************************)
(* Claims about the precedence of authorizations.                          *)
(***************************************************************************)
Override(base, over) ==
  [k \in DOMAIN base \cup DOMAIN over |-> IF k \in DOMAIN over THEN over[k] ELSE base[k]]

(* C27: whenever the plugin is ready for a call, for every event with a    *)
(* data key, every trans_meta and either phase: the authorization          *)
(* compute_auth starts from is the event's own one when the phase is       *)
(* AfterStore and the event has one; otherwise the entry of                *)
(* trans_meta.auth for the key, else the plugin's entry, else (Inherit,    *)
(* Inherit).  The result is the one a plugin would give, with an empty     *)
(* trans_meta, whose auth and parents maps are the plugin's overridden,    *)
(* key by key, by those of trans_meta.                                     *)
C27_Precedence ==
  out = NoOut =>
    \A meta \in AuthMetas, trans_meta \in AuthTrans, phase \in {"BeforeStore", "AfterStore"} :
      meta.key # 0 =>
        /\ OwnAuth(plugin, meta, trans_meta, phase) =
             IF phase = "AfterStore" /\ meta.auth # <<>> THEN meta.auth[1]
             ELSE IF meta.key \in DOMAIN trans_meta.auth THEN trans_meta.auth[meta.key]
             ELSE IF meta.key \in DOMAIN plugin.auth THEN plugin.auth[meta.key]
             ELSE MetaAuthorization(ReadInherit, WriteInherit)
        /\ compute_auth(plugin, meta, trans_meta, phase) =
             compute_auth([plugin EXCEPT !.auth = Override(plugin.auth, trans_meta.auth),
                                         !.parents = Override(plugin.parents, trans_meta.parents)],
                          meta, DefaultTransactionMetadata, phase)

(* a call on a key the plugin has an entry for started from another        *)
(* authorization, and resolved an inherited right through a parent         *)
C27_Witness ==
  /\ out.op = "compute_auth" /\ out.key # 0
  /\ out.key \in DOMAIN plugin.auth
  /\ out.own # plugin.auth[out.key]
  /\ HasInherit(out.own) /\ out.names # 0 /\ out.names # out.key
  /\ out.res.st = "Ok"
  /\ out.res.write # WriteInherit /\ out.res.write # plugin.root

(***************************************************************************)
(* Claims about linting.                                                   *)
(***************************************************************************)
(* the authorization a lint call resolved in a phase *)
LintAuth(phase) == compute_auth(plugin, out.meta, out.trans_meta, phase)

Signers == vals(LintAuth("BeforeStore").write) \cap out.session.write_keys

(* C28: a lint call whose write option, resolved before store, is not      *)
(* Everyone, on metadata that needs a signature, with a session holding no *)
(* write key of the resolved write set, fails with NoAuthorizationWrite    *)
(* when the metadata has a data key and with NoAuthorizationOrphan when it *)
(* has none, and returns no metadata.                                      *)
C28_LintRejects ==
  (/\ out.op = "lint"
   /\ LintAuth("BeforeStore").st = "Ok"
   /\ LintAuth("BeforeStore").write.t # "Everyone"
   /\ out.meta.sig
   /\ Signers = {}) =>
    /\ out.st = IF out.meta.key # 0 THEN "NoAuthorizationWrite" ELSE "NoAuthorizationOrphan"
    /\ out.sign_with = {}
    /\ out.meta.conf = <<>>

(* C29: a lint call that succeeds returns as SignWith keys exactly the     *)
(* write keys of the session that are in the write set resolved before     *)
(* store; it returns no SignWith when there is none, and none when the     *)
(* resolved write option is Everyone.                                      *)
C29_SignWith ==
  (out.op = "lint" /\ out.st = "Ok") =>
    /\ out.sign_with = Signers
    /\ LintAuth("BeforeStore").write.t = "Everyone" => out.sign_with = {}

(* the event's own authorization would give another write set *)
C29_Witness ==
  /\ out.op = "lint" /\ out.st = "Ok"
  /\ out.sign_with # {}
  /\ out.sign_with # out.session.write_keys \cup vals(LintAuth("BeforeStore").write)
  /\ out.meta.auth # <<>>
  /\ LintAuth("AfterStore").st = "Ok"
  /\ vals(LintAuth("AfterStore").write) # vals(LintAuth("BeforeStore").write)

(* the key of a read option as a session can obtain it: the key an         *)
(* Everyone option carries, or the key a Specific option's derived key     *)
(* unwraps to under a read key the session holds                           *)
Readable(read, session) ==
  IF read.t = "Everyone" THEN IF read.k # 0 THEN <<read.k>> ELSE <<>>
  ELSE IF /\ read.t = "Specific"
          /\ read.k \in session.read_keys \cup session.private_read_keys
    THEN transmute(read.d, read.k)
  ELSE <<>>

SigningPassed ==
  /\ out.op = "lint"
  /\ LintAuth("BeforeStore").st = "Ok"
  /\ LintWrite(out.meta, out.session, LintAuth("BeforeStore").write).st = "Ok"
  /\ LintAuth("AfterStore").st = "Ok"

(* C30: a lint call that succeeds returns a Confidentiality exactly when   *)
(* the session can obtain the key of the read option resolved after store, *)
(* and its hash is the short hash of that key; a lint call whose signing   *)
(* part passed, whose read option resolved after store is Specific and     *)
(* whose session holds no read key with the hash the option names, fails   *)
(* with NoAuthorizationRead and returns no metadata.                       *)
C30_ConfidentialityHint ==
  /\ (out.op = "lint" /\ out.st = "Ok") =>
       LET key == Readable(LintAuth("AfterStore").read, out.session) IN
       /\ out.meta.conf # <<>> <=> key # <<>>
       /\ out.meta.conf # <<>> => out.meta.conf[1].hash = short_hash(key[1])
  /\ (/\ SigningPassed
      /\ LintAuth("AfterStore").read.t = "Specific"
      /\ LintAuth("AfterStore").read.k
           \notin out.session.read_keys \cup out.session.private_read_keys) =>
       /\ out.st = "NoAuthorizationRead"
       /\ out.meta.conf = <<>>
       /\ out.sign_with = {}

(* a Specific read option whose key the session holds *)
C30_Witness ==
  /\ out.op = "lint" /\ out.st = "Ok"
  /\ LintAuth("AfterStore").read.t = "Specific"
  /\ out.meta.conf # <<>>
  /\ out.meta.conf[1].hash = short_hash(transmute(LintAuth("AfterStore").read.d,
                                                  LintAuth("AfterStore").read.k)[1])

(***************************************************************************)
(* Claims about the root keys and about replaying the plugin.              *)
(***************************************************************************)
(* C31: a step that calls set_root_keys(K) leaves root_keys equal to K,    *)
(* whatever keys were installed before, with the root write option         *)
(* Everyone when K is empty and Any(K) otherwise, changes nothing else of  *)
(* the plugin, and calling it again with K would change nothing.           *)
C31_SetRootKeys ==
  [][\A hs \in SUBSET SignHashes :
       SetRootKeys(hs) =>
         /\ plugin'.root_keys = hs
         /\ plugin'.root = IF hs = {} THEN WriteEveryone ELSE WriteAny(hs)
         /\ plugin'.auth = plugin.auth /\ plugin'.parents = plugin.parents
         /\ plugin'.integrity = plugin.integrity
         /\ set_root_keys(plugin', hs) = plugin']_vars

(* keys were installed, on a plugin that events were fed to *)
C31_Witness ==
  /\ plugin.root_keys # {} /\ plugin.root_keys # SignHashes
  /\ plugin.root = WriteAny(plugin.root_keys)
  /\ plugin.auth # EmptyMap

Newer(i) == (i + 1)..Len(out.frames)

(* C33: walking newest to oldest, the tombstone compactor answers          *)
(* ForceDrop for every tombstone event and for every event older than a    *)
(* tombstone of its data key, and Abstain for every other event.           *)
C33_TombstoneCompactor ==
  out.op = "compact" =>
    \A i \in 1..Len(out.frames) :
      LET meta == out.frames[i].meta
          key == get_data_key(meta)
          dead == \/ get_tombstone(meta) # 0
                  \/ /\ key # 0
                     /\ \E j \in Newer(i) : get_tombstone(out.frames[j].meta) = key
      IN out.rels[i].tombstone = IF dead THEN "ForceDrop" ELSE "Abstain"

(* a key is stored, tombstoned and stored again: the older store is        *)
(* dropped and the newer one is not                                        *)
C33_Witness ==
  /\ out.op = "compact"
  /\ \E i, j, k \in 1..Len(out.frames) :
       /\ i < j /\ j < k
       /\ get_data_key(out.frames[i].meta) = 1 /\ get_tombstone(out.frames[i].meta) = 0
       /\ get_tombstone(out.frames[j].meta) = 1
       /\ get_data_key(out.frames[k].meta) = 1 /\ get_tombstone(out.frames[k].meta) = 0
       /\ \A n \in Newer(k) : get_tombstone(out.frames[n].meta) # 1
       /\ out.rels[i].tombstone = "ForceDrop"
       /\ out.rels[k].tombstone = "Abstain"

(* C34: walking newest to oldest, the newest event of every data key gets  *)
(* Keep, every older event of the key gets Drop and an event without a     *)
(* data key gets Abstain.                                                  *)
C34_RemoveDuplicates ==
  out.op = "compact" =>
    \A i \in 1..Len(out.frames) :
      LET key == get_data_key(out.frames[i].meta) IN
      out.rels[i].duplicates =
        IF key = 0 THEN "Abstain"
        ELSE IF \E j \in Newer(i) : get_data_key(out.frames[j].meta) = key THEN "Drop"
        ELSE "Keep"

(* two keys, one of them written three times, and an event with no key *)
C34_Witness ==
  /\ out.op = "compact"
  /\ Len(out.frames) = MaxWalk
  /\ {out.rels[i].duplicates : i \in 1..Len(out.frames)} = {"Keep", "Drop", "Abstain"}
  /\ Cardinality({i \in 1..Len(out.frames) : out.rels[i].duplicates = "Drop"}) = 2

(* frame i of the compacted log is retained *)
Retained(i) ==
  Compose({out.rels[i].duplicates, out.rels[i].tombstone, out.rels[i].tree})

ParentOf(i) == get_parent_id(out.frames[i].meta)

KeyOf(i) == get_data_key(out.frames[i].meta)

(* frame i is the newest event with its data key *)
NewestOfKey(i) == KeyOf(i) # 0 /\ \A j \in Newer(i) : KeyOf(j) # KeyOf(i)

Delay(k) ==
  IF StartBackoff * 2^(k - 1) < MaxBackoff THEN StartBackoff * 2^(k - 1) ELSE MaxBackoff

(* C36: the accept task sleeps min(100 ms * 2^(k-1), 10 s) after the k-th  *)
(* accept error in a row; its back-off is always between 100 ms and 10 s   *)
(* and is 100 ms again after a successful accept.                          *)
C36_BackoffSchedule ==
  /\ [](/\ task = "sleep" => exp_backoff = Delay(errs)
        /\ StartBackoff <= exp_backoff /\ exp_backoff <= MaxBackoff)
  /\ [][AcceptOk => exp_backoff' = StartBackoff /\ errs' = 0]_vars

(* the accept task sleeps the capped delay after its ninth error in a row, *)
(* where the uncapped delay would be 25.6 s                                *)
C36_Witness ==
  /\ task = "sleep"
  /\ errs = 9
  /\ exp_backoff = MaxBackoff
  /\ StartBackoff * 2^(errs - 1) > MaxBackoff

(* the handshake gets as far as the lookup of the route *)
LookupReached(up, hello, kx) ==
  /\ up = "Ok"
  /\ hello # <<>>
  /\ CertificateCheck(hello[1].encryption, server_cert) = "Ok"
  /\ (server_cert = 0 \/ kx)

(* C37: a connection whose hello names a path that is not in the route     *)
(* table when accept_tcp_connect looks it up ends with Ok and without an   *)
(* inbox task, so the processor never sees it; a connection that gets as   *)
(* far as the lookup is handed to an inbox task only for a path in the     *)
(* table.                                                                  *)
C37_UnknownRoute ==
  [][\A up \in Upgrades, hello \in Hellos, kx \in BOOLEAN :
       (Handshake(up, hello, kx) /\ LookupReached(up, hello, kx)) =>
          LET conn == conns'[Len(conns')] IN
          /\ hello[1].path \notin routes => (conn.st = "Ok" /\ ~conn.handed)
          /\ conn.handed => hello[1].path \in routes]_vars

(* a listener that has a route, with a certificate, has closed a           *)
(* connection for another path after the key exchange                      *)
C37_Witness ==
  /\ conns # <<>>
  /\ conns[Len(conns)].st = "Ok" /\ ~conns[Len(conns)].handed
  /\ ~conns[Len(conns)].late
  /\ wire.st = "Ok" /\ wire.exchanged
  /\ routes # {} /\ routes # Paths
  /\ task = "accept"

(* C38: in every order of Confirmed, CommitError and cancel_commits a reply *)
(* channel receives at most one result, and none while its commit is in    *)
(* the table or in the hands of cancel_commits; the one of the three that  *)
(* takes the commit out sends its result, Ok, RootError or Aborted; and a  *)
(* Confirmed or CommitError for an id that is not outstanding changes      *)
(* nothing and returns Ok.                                                 *)
C38_ExactlyOnce ==
  /\ [](/\ commit \cap senders = {}
        /\ \A id \in CommitIds :
             /\ Len(replies[id]) <= 1
             /\ id \in commit \cup senders => replies[id] = <<>>)
  /\ [][\A id \in CommitIds :
          /\ (alive /\ id \in commit /\ InboxConfirmed(id))
               => (replies'[id] = <<CommitOk(id)>> /\ id \notin commit' \cup senders')
          /\ \A err \in Errs :
               (alive /\ id \in commit /\ InboxCommitError(id, err))
                 => (replies'[id] = <<RootError(err)>> /\ id \notin commit' \cup senders')
          /\ CancelCommitsSend(id)
               => (replies'[id] = <<Aborted>> /\ id \notin commit' \cup senders')
          /\ (alive /\ id \notin commit
                /\ (InboxConfirmed(id) \/ \E err \in Errs : InboxCommitError(id, err)))
               => /\ returned' = "Ok"
                  /\ UNCHANGED <<alive, pc, commit, senders, replies, lock_requests,
                                 lock_replies, sniffers, status_tx>>]_vars

(* each of the three has completed one commit, and cancel_commits holds no *)
(* sender any more                                                         *)
C38_Witness ==
  /\ alive
  /\ pc = "cancel_sniffers"
  /\ replies[1] = <<CommitOk(1)>>
  /\ replies[2] = <<RootError(1)>>
  /\ replies[3] = <<Aborted>>

(* C39: the chain is in Distributed mode whenever it has no connection,    *)
(* here once the shutdown of its connection has sent Disconnected and      *)
(* until the next connection; and a StartOfHistory sets the mode it        *)
(* advertises, which no other step of the session changes.                 *)
C39_OfflineDistributed ==
  /\ [](pc = "down" => plugin.integrity = "Distributed")
  /\ [][/\ \A size \in 1..NumSizes, root_keys \in {{}, {1}},
              integrity \in {"Centralized", "Distributed"} :
              (alive /\ chain /\ InboxStartOfHistory(size, <<>>, root_keys, integrity))
                => plugin'.integrity = integrity
        /\ (plugin'.integrity # plugin.integrity /\ pc' = "run") => loader_log' # loader_log]_vars

(* the sessions and the pending authorizations lint is asked with *)
RootLintInputs ==
  {Session({}, {}, {}), Session({}, {}, {1})} \X AuthTrans

(* C40: the root write option is Everyone when there are no root keys and  *)
(* Any of exactly their hashes otherwise; an authorization that resolves   *)
(* never has the write option Inherit; and lint never fails with           *)
(* UnspecifiedWritability.                                                 *)
C40_RootWriteOption ==
  /\ plugin.root = IF plugin.root_keys = {} THEN WriteEveryone
                   ELSE WriteAny(plugin.root_keys)
  /\ (out.op = "compute_auth" /\ out.res.st = "Ok") => out.res.write.t # "Inherit"
  /\ out = NoOut =>
       \A meta \in CryptMetas, in \in RootLintInputs :
         metadata_lint_event(plugin, meta, in[1], in[2]).st # "UnspecifiedWritability"

(* a record whose own write option is Inherit and which has no parent got  *)
(* the root's option, one of two root keys                                 *)
C40_Witness ==
  /\ out.op = "compute_auth"
  /\ out.res.st = "Ok"
  /\ out.key # 0
  /\ out.names = 0
  /\ out.own.write = WriteInherit
  /\ plugin.root_keys = SignHashes
  /\ out.res.write = WriteAny(SignHashes)

====
